---- MODULE Spec2Model ----
(***************************************************************************)
(* The persistent device store of LAN Orangutan                            *)
(* (internal/storage/storage.go, internal/types/types.go), the scanner     *)
(* (internal/scanner/scanner.go) and the callers of both: the handlers of  *)
(* the API server and the scan command of the CLI.                         *)
(*                                                                         *)
(* Time values are instants: 0 is the zero time.Time (IsZero), time.Now()  *)
(* is the clock `now`, which starts at 1 and never runs backwards.         *)
(* An optional value (a Go pointer to string or float64) is a sequence:     *)
(* <<>> is nil and <<v>> points to v.                                      *)
(***************************************************************************)
EXTENDS Integers, Sequences, FiniteSets, TLC

\* ------------------------------------------------------------------ bounds
MaxTime == 2
MaxBatch == 2

\* ------------------------------------------------------------ input domains
AddrOrder == <<"10.0.0.5", "10.0.0.6">>
Addr == {AddrOrder[i] : i \in 1..Len(AddrOrder)}

Nil == <<>>
ZeroTime == 0

\* what a probe backend reports about one host
Liveness ==
  { [MAC |-> "00:11:22:33:44:55", Hostname |-> "tv", Vendor |-> "Acme", ResponseTime |-> Nil],
    [MAC |-> "66:77:88:99:AA:BB", Hostname |-> "tv2", Vendor |-> "Unknown", ResponseTime |-> <<5>>] }

\* the annotation fields a Device value handed to the store can carry
Annotations ==
  { [Label |-> "", Notes |-> "", Group |-> ""],
    [Label |-> "TV", Notes |-> "wall", Group |-> "Living Room"] }

\* types.Device
Device(ip, lv, an, first, last) ==
  [IP |-> ip, MAC |-> lv.MAC, Hostname |-> lv.Hostname, Vendor |-> lv.Vendor,
   Label |-> an.Label, Notes |-> an.Notes, Group |-> an.Group,
   FirstSeen |-> first, LastSeen |-> last, ResponseTime |-> lv.ResponseTime]

NoAnnotations == [Label |-> "", Notes |-> "", Group |-> ""]

\* the Device values a caller passes to MergeDevices: each report about the
\* first address, the report with a latency also with its annotations filled
\* in, and the report without a latency about the second address
Discovered ==
  { Device(AddrOrder[1], lv, NoAnnotations, ZeroTime, ZeroTime) : lv \in Liveness }
  \cup { Device(AddrOrder[1], lv, an, ZeroTime, ZeroTime) :
           lv \in {l \in Liveness : l.ResponseTime # Nil}, an \in Annotations \ {NoAnnotations} }
  \cup { Device(AddrOrder[2], lv, NoAnnotations, ZeroTime, ZeroTime) :
           lv \in {l \in Liveness : l.ResponseTime = Nil} }

RECURSIVE SeqsUpTo(_, _)
SeqsUpTo(S, n) ==
  IF n = 0 THEN {<<>>}
  ELSE LET shorter == SeqsUpTo(S, n - 1)
       IN shorter \cup {Append(q, x) : q \in {r \in shorter : Len(r) = n - 1}, x \in S}

Batches == SeqsUpTo(Discovered, MaxBatch)

\* the address whose record the user edits; the other one is a host that only
\* scans report
Edited == {AddrOrder[1]}

OptLabels == {Nil, <<"TV">>}
OptNotes == {Nil, <<"wall">>}
OptGroups == {Nil, <<"Living Room">>}

\* ------------------------------------------------------------------- state
VARIABLES
  now,          \* the wall clock read by time.Now()
  devices,      \* Storage.devices: address -> Device
  lastScan,     \* Storage.state.LastScan: range string -> time
  devicesFile,  \* content of the devices file, or NoFile
  stateFile,    \* content of the scan-state file, or NoFile
  tempFile,     \* content of the ".tmp-*" file of the write in progress, or NoFile
  io,           \* where the process is inside atomicWrite
  call,         \* the store operation that is returning: name, arguments, error,
                \* and the store as it was when the call began
  backupFile,   \* content of the ".backup" sibling of the devices file, or NoFile
  mu,           \* Storage.mu: the goroutine holding the write lock, the readers
  th,           \* the request handlers of the server process, one per goroutine
  cli,          \* the Storage of a one-shot CLI process on the same files
  scan,         \* the Scanner: its minInterval and its Scan call in progress
  heap          \* the Device objects behind the pointers of Storage.devices and
                \* of the maps GetDevices has returned

\* the state the operations of a single caller never touch
rest == <<backupFile, mu, th, cli, scan, heap>>

vars == <<now, devices, lastScan, devicesFile, stateFile, tempFile, io, call, rest>>

EmptyMap == [k \in {} |-> Nil]

Put(m, k, v) == [x \in DOMAIN m \cup {k} |-> IF x = k THEN v ELSE m[x]]

Remove(m, k) == [x \in DOMAIN m \ {k} |-> m[x]]

\* ------------------------------------------------------- files and JSON
\* A file is absent, or holds a sequence of chunks.  The text of a JSON object
\* is an opening chunk, one chunk <<name, value>> per member in the order the
\* encoder writes them (map keys sorted), and a closing chunk; a struct value
\* is a record of its json member names.
NoFile == [exists |-> FALSE, bytes |-> <<>>]

FileOf(bytes) == [exists |-> TRUE, bytes |-> bytes]

OpenBrace == <<"{">>
CloseBrace == <<"}">>

\* json.MarshalIndent of an object with the given members
MarshalIndent(members) == <<OpenBrace>> \o members \o <<CloseBrace>>

\* json.Unmarshal accepts the text
ValidJSON(bytes) ==
  /\ Len(bytes) >= 2
  /\ bytes[1] = OpenBrace
  /\ bytes[Len(bytes)] = CloseBrace
  /\ \A i \in 2..(Len(bytes) - 1) : Len(bytes[i]) = 2

Members(bytes) == SubSeq(bytes, 2, Len(bytes) - 1)

\* time.Time.MarshalJSON: an RFC 3339 string with nanoseconds
TimeJSON(t) == <<"RFC3339Nano", t>>

\* time.Time.UnmarshalJSON
ParseTimeJSON(j) == j[2]

\* json.Marshal of a types.Device (response_time has omitempty)
DeviceJSON(d) ==
  LET members ==
        [ip |-> d.IP, mac |-> d.MAC, hostname |-> d.Hostname, vendor |-> d.Vendor,
         label |-> d.Label, notes |-> d.Notes, group |-> d.Group,
         first_seen |-> TimeJSON(d.FirstSeen), last_seen |-> TimeJSON(d.LastSeen)]
  IN IF d.ResponseTime = Nil THEN members
     ELSE members @@ [response_time |-> d.ResponseTime[1]]

\* DeviceFromJSON with a response_time that is never nil
DeviceFromJSON_NoOmit(o) ==
  [IP |-> o.ip, MAC |-> o.mac, Hostname |-> o.hostname, Vendor |-> o.vendor,
   Label |-> o.label, Notes |-> o.notes, Group |-> o.group,
   FirstSeen |-> ParseTimeJSON(o.first_seen), LastSeen |-> ParseTimeJSON(o.last_seen),
   ResponseTime |-> IF "response_time" \in DOMAIN o THEN <<o.response_time>> ELSE <<0>>]

\* json.Unmarshal into a fresh types.Device: absent members stay zero
DeviceFromJSON(o) ==
  [IP |-> o.ip, MAC |-> o.mac, Hostname |-> o.hostname, Vendor |-> o.vendor,
   Label |-> o.label, Notes |-> o.notes, Group |-> o.group,
   FirstSeen |-> ParseTimeJSON(o.first_seen), LastSeen |-> ParseTimeJSON(o.last_seen),
   ResponseTime |-> IF "response_time" \in DOMAIN o THEN <<o.response_time>> ELSE Nil]

RangeOrder == <<"192.168.1.0/24", "192.168.1.7/24">>
RangeKeys == {RangeOrder[i] : i \in 1..Len(RangeOrder)}

\* the keys of a map in the order json.Marshal writes them (sorted)
SortedKeys(m, order) == SelectSeq(order, LAMBDA k : k \in DOMAIN m)

\* json.Marshal of the device map: one member per key
MarshalDevices(m) ==
  LET keys == SortedKeys(m, AddrOrder)
  IN [i \in 1..Len(keys) |-> <<keys[i], DeviceJSON(m[keys[i]])>>]

\* json.Marshal of the LastScan map
MarshalScans(m) ==
  LET keys == SortedKeys(m, RangeOrder)
  IN [i \in 1..Len(keys) |-> <<keys[i], TimeJSON(m[keys[i]])>>]

\* json.Unmarshal of an object into a map stores the members in turn, so the
\* last member of a name is the one that stays
LastMember(doc, k) ==
  CHOOSE i \in 1..Len(doc) :
    /\ doc[i][1] = k
    /\ \A j \in (i + 1)..Len(doc) : doc[j][1] # k

\* json.Unmarshal into the empty device map
UnmarshalDevices(doc) ==
  [k \in {doc[i][1] : i \in 1..Len(doc)} |-> DeviceFromJSON(doc[LastMember(doc, k)][2])]

\* json.Unmarshal into the empty LastScan map
UnmarshalScans(doc) ==
  [k \in {doc[i][1] : i \in 1..Len(doc)} |-> ParseTimeJSON(doc[LastMember(doc, k)][2])]

\* ------------------------------------------------------------ persistence
\* the text saveDevices hands to atomicWrite
DevicesText(devs) == MarshalIndent(MarshalDevices(devs))

\* the text saveState hands to atomicWrite: a ScanState with its one member
StateText(scans) ==
  MarshalIndent(<<<<"last_scan", MarshalIndent(MarshalScans(scans))>>>>)

\* atomicWrite seen from inside the process, where the store lock makes it one
\* step: the target holds the new data when every call in it succeeded and is
\* left alone when one failed
atomicWrite(file, data, ok) == IF ok THEN FileOf(data) ELSE file

saveDevices(devs, file, ok) == atomicWrite(file, DevicesText(devs), ok)

saveState(scans, file, ok) == atomicWrite(file, StateText(scans), ok)

\* loadDevices: "" when the map was loaded or the file is empty, else the error
loadDevicesErr(file) ==
  IF ~file.exists THEN "not exist"
  ELSE IF Len(file.bytes) = 0 \/ ValidJSON(file.bytes) THEN ""
  ELSE "invalid JSON"

\* the map loadDevices leaves in the Storage made by New
loadDevices(file) ==
  IF file.exists /\ ValidJSON(file.bytes)
  THEN UnmarshalDevices(Members(file.bytes))
  ELSE EmptyMap

loadStateErr(file) ==
  IF ~file.exists THEN "not exist"
  ELSE IF Len(file.bytes) = 0 \/ ValidJSON(file.bytes) THEN ""
  ELSE "invalid JSON"

\* the LastScan map loadState leaves in the Storage made by New
loadState(file) ==
  IF file.exists /\ ValidJSON(file.bytes)
  THEN LET members == Members(file.bytes)
           at == {i \in 1..Len(members) : members[i][1] = "last_scan"}
       IN IF at = {} THEN EmptyMap
          ELSE UnmarshalScans(Members(members[LastMember(members, "last_scan")][2]))
  ELSE EmptyMap

\* the error New returns, "" when it returns the Storage
NewErr(dfile, sfile) ==
  IF loadDevicesErr(dfile) \notin {"", "not exist"} THEN "failed to load devices"
  ELSE IF loadStateErr(sfile) \notin {"", "not exist"} THEN "failed to load state"
  ELSE ""

\* -------------------------------------------------------- store operations
\* MergeOne storing the discovered value over a record that exists
MergeOne_Replace(devs, d, t) ==
  Put(devs, d.IP,
      [d EXCEPT !.FirstSeen = IF d.IP \in DOMAIN devs THEN devs[d.IP].FirstSeen ELSE t,
                !.LastSeen = t])

\* MergeOne stamping first-observed on every sighting
MergeOne_ResetFirst(devs, d, t) ==
  IF d.IP \in DOMAIN devs
  THEN [devs EXCEPT ![d.IP] =
          [@ EXCEPT !.MAC = d.MAC, !.Hostname = d.Hostname, !.Vendor = d.Vendor,
                    !.FirstSeen = t, !.LastSeen = t, !.ResponseTime = d.ResponseTime]]
  ELSE Put(devs, d.IP, [d EXCEPT !.FirstSeen = t, !.LastSeen = t])

\* the body of the loop of MergeDevices
MergeOne(devs, d, t) ==
  IF d.IP \in DOMAIN devs
  THEN [devs EXCEPT ![d.IP] =
          [@ EXCEPT !.MAC = d.MAC, !.Hostname = d.Hostname, !.Vendor = d.Vendor,
                    !.LastSeen = t, !.ResponseTime = d.ResponseTime]]
  ELSE Put(devs, d.IP, [d EXCEPT !.FirstSeen = t, !.LastSeen = t])

\* MergeLoop leaving the loop after the first device that is already known
RECURSIVE MergeLoop_StopAtKnown(_, _, _, _)
MergeLoop_StopAtKnown(devs, discovered, i, t) ==
  IF i > Len(discovered) THEN devs
  ELSE IF discovered[i].IP \in DOMAIN devs THEN MergeOne(devs, discovered[i], t)
  ELSE MergeLoop_StopAtKnown(MergeOne(devs, discovered[i], t), discovered, i + 1, t)

\* MergeLoop keeping only the records of the addresses the scan has seen
RECURSIVE MergeLoop_Prune(_, _, _, _)
MergeLoop_Prune(devs, discovered, i, t) ==
  LET seen == {discovered[j].IP : j \in 1..Len(discovered)}
      kept == [k \in DOMAIN devs \cap seen |-> devs[k]]
  IN IF i > Len(discovered) THEN kept
     ELSE MergeLoop_Prune(MergeOne(kept, discovered[i], t), discovered, i + 1, t)

RECURSIVE MergeLoop(_, _, _, _)
MergeLoop(devs, discovered, i, t) ==
  IF i > Len(discovered) THEN devs
  ELSE MergeLoop(MergeOne(devs, discovered[i], t), discovered, i + 1, t)

\* UpdateDevice storing the caller's device as it is
Backfill_Overwrite(device, existing) == device

\* the device a caller hands to UpdateDevice, after the back-fill from the
\* record stored under its address
Backfill(device, existing) ==
  [device EXCEPT
     !.Label = IF device.Label = "" THEN existing.Label ELSE @,
     !.Notes = IF device.Notes = "" THEN existing.Notes ELSE @,
     !.Group = IF device.Group = "" THEN existing.Group ELSE @,
     !.FirstSeen = IF device.FirstSeen = ZeroTime THEN existing.FirstSeen ELSE @]

\* SetFields reading an absent argument as the empty string
SetFields_Deref(device, label, notes, group) ==
  [device EXCEPT
     !.Label = IF label # Nil THEN label[1] ELSE "",
     !.Notes = IF notes # Nil THEN notes[1] ELSE "",
     !.Group = IF group # Nil THEN group[1] ELSE ""]

\* the fields of a record after UpdateDeviceFields
SetFields(device, label, notes, group) ==
  [device EXCEPT
     !.Label = IF label # Nil THEN label[1] ELSE @,
     !.Notes = IF notes # Nil THEN notes[1] ELSE @,
     !.Group = IF group # Nil THEN group[1] ELSE @]

Idle == [op |-> "none"]

NoIO == [pc |-> "idle"]

\* the zero sync.RWMutex
Unlocked == [writer |-> 0, readers |-> {}]

\* the goroutines net/http runs the handlers of the server on
Goroutines == {1, 2}

\* a goroutine that serves no request; passed keeps the time at which its last
\* scan request passed the rate-limit check
Waiting ==
  [pc |-> "idle", kind |-> "", cidr |-> "", m |-> "", step |-> "", last |-> ZeroTime,
   passed |-> ZeroTime, found |-> <<>>, at |-> ZeroTime, data |-> <<>>,
   temp |-> NoFile, status |-> 0]

\* no CLI process runs
NoProcess == [pc |-> "none"]

\* no Scanner has been constructed
NoScan == [pc |-> "idle"]

\* no Device object has been allocated
NoHeap == [ref |-> EmptyMap, obj |-> EmptyMap, held |-> EmptyMap, seen |-> EmptyMap]

\* what the caller of a store operation holds when it returns
Called(op, args, err) ==
  [op |-> op, args |-> args, err |-> err, at |-> now,
   devices |-> devices, lastScan |-> lastScan,
   devicesFile |-> devicesFile, stateFile |-> stateFile]

Saved(ok) == IF ok THEN "" ELSE "write failed"

MergeDevices(discovered, ok) ==
  /\ call = Idle
  /\ devices' = MergeLoop(devices, discovered, 1, now)
  /\ devicesFile' = saveDevices(devices', devicesFile, ok)
  /\ call' = Called("MergeDevices", discovered, Saved(ok))
  /\ UNCHANGED <<now, lastScan, stateFile, tempFile, io, rest>>

UpdateDevice(device, ok) ==
  /\ call = Idle
  /\ devices' = Put(devices, device.IP,
                    IF device.IP \in DOMAIN devices
                    THEN Backfill(device, devices[device.IP])
                    ELSE device)
  /\ devicesFile' = saveDevices(devices', devicesFile, ok)
  /\ call' = Called("UpdateDevice", device, Saved(ok))
  /\ UNCHANGED <<now, lastScan, stateFile, tempFile, io, rest>>

UpdateDeviceFields(ip, label, notes, group, ok) ==
  /\ call = Idle
  /\ IF ip \notin DOMAIN devices
     THEN /\ call' = Called("UpdateDeviceFields", <<ip, label, notes, group>>, "device not found")
          /\ UNCHANGED <<devices, devicesFile>>
     ELSE /\ devices' = [devices EXCEPT ![ip] = SetFields(@, label, notes, group)]
          /\ devicesFile' = saveDevices(devices', devicesFile, ok)
          /\ call' = Called("UpdateDeviceFields", <<ip, label, notes, group>>, Saved(ok))
  /\ UNCHANGED <<now, lastScan, stateFile, tempFile, io, rest>>

\* DeleteDevice saving the map also when the address has no record
DeleteDevice_SaveAnyway(ip, ok) ==
  /\ call = Idle
  /\ devices' = Remove(devices, ip)
  /\ devicesFile' = saveDevices(devices', devicesFile, ok)
  /\ call' = Called("DeleteDevice", ip,
                    IF ip \notin DOMAIN devices THEN "device not found" ELSE Saved(ok))
  /\ UNCHANGED <<now, lastScan, stateFile, tempFile, io, rest>>

DeleteDevice(ip, ok) ==
  /\ call = Idle
  /\ IF ip \notin DOMAIN devices
     THEN /\ call' = Called("DeleteDevice", ip, "device not found")
          /\ UNCHANGED <<devices, devicesFile>>
     ELSE /\ devices' = Remove(devices, ip)
          /\ devicesFile' = saveDevices(devices', devicesFile, ok)
          /\ call' = Called("DeleteDevice", ip, Saved(ok))
  /\ UNCHANGED <<now, lastScan, stateFile, tempFile, io, rest>>

\* SetLastScan keying the entry by the network the range denotes
SetLastScan_ByNetwork(network, t, ok) ==
  /\ call = Idle
  /\ lastScan' = Put(lastScan, "192.168.1.0/24", t)
  /\ stateFile' = saveState(lastScan', stateFile, ok)
  /\ call' = Called("SetLastScan", <<network, t>>, Saved(ok))
  /\ UNCHANGED <<now, devices, devicesFile, tempFile, io, rest>>

SetLastScan(network, t, ok) ==
  /\ call = Idle
  /\ lastScan' = Put(lastScan, network, t)
  /\ stateFile' = saveState(lastScan', stateFile, ok)
  /\ call' = Called("SetLastScan", <<network, t>>, Saved(ok))
  /\ UNCHANGED <<now, devices, devicesFile, tempFile, io, rest>>

\* the process has ended and a new one constructs its Storage from the files
New ==
  /\ call = Idle
  /\ io = NoIO
  /\ IF NewErr(devicesFile, stateFile) = ""
     THEN /\ devices' = loadDevices(devicesFile)
          /\ lastScan' = loadState(stateFile)
     ELSE /\ devices' = EmptyMap
          /\ lastScan' = EmptyMap
  /\ call' = Called("New", <<>>, NewErr(devicesFile, stateFile))
  /\ UNCHANGED <<now, devicesFile, stateFile, tempFile, io, rest>>

\* the caller has taken the result of its call
Return ==
  /\ call # Idle
  /\ call.err # "pending"
  /\ call' = Idle
  /\ UNCHANGED <<now, devices, lastScan, devicesFile, stateFile, tempFile, io, rest>>

\* time passes between two calls
Tick ==
  /\ call = Idle
  /\ now < MaxTime
  /\ now' = now + 1
  /\ UNCHANGED <<devices, lastScan, devicesFile, stateFile, tempFile, io, call, rest>>

\* a Storage constructed over a data directory without files
Init ==
  /\ now = 1
  /\ devices = EmptyMap
  /\ lastScan = EmptyMap
  /\ devicesFile = NoFile
  /\ stateFile = NoFile
  /\ tempFile = NoFile
  /\ io = NoIO
  /\ call = Idle
  /\ backupFile = NoFile
  /\ mu = Unlocked
  /\ th = [t \in Goroutines |-> Waiting]
  /\ cli = NoProcess
  /\ scan = NoScan
  /\ heap = NoHeap

\* the Device values a caller passes to UpdateDevice
Replacements ==
  { Device(AddrOrder[1], lv, an, first, last) :
      lv \in Liveness, an \in Annotations,
      first \in {ZeroTime, now}, last \in {ZeroTime, now} }

Next ==
  \/ \E discovered \in Batches : MergeDevices(discovered, TRUE)
  \/ \E device \in Replacements : UpdateDevice(device, TRUE)
  \/ \E ip \in Edited, label \in OptLabels, notes \in OptNotes, group \in OptGroups :
       UpdateDeviceFields(ip, label, notes, group, TRUE)
  \/ \E ip \in Addr : DeleteDevice(ip, TRUE)
  \/ SetLastScan(RangeOrder[1], now, TRUE)
  \/ New
  \/ Return
  \/ Tick

Spec == Init /\ [][Next]_vars
\* ------------------------------------------------- atomicWrite, call by call
\* The same write seen from the file system: every call atomicWrite makes is a
\* step, and the process can end between any two of them.
Target(path) == IF path = "devices" THEN devicesFile ELSE stateFile

InWrite == {"CreateTemp", "Write", "Sync", "Close", "Rename", "Cleanup"}

\* MergeDevices up to its call of atomicWrite: the lock is taken, the list
\* merged and the map encoded
MergeDevicesEnter(discovered) ==
  /\ call = Idle
  /\ io = NoIO
  /\ devices' = MergeLoop(devices, discovered, 1, now)
  /\ io' = [pc |-> "CreateTemp", path |-> "devices", data |-> DevicesText(devices'),
            prev |-> devicesFile, err |-> ""]
  /\ call' = Called("MergeDevices", discovered, "pending")
  /\ UNCHANGED <<now, lastScan, devicesFile, stateFile, tempFile, rest>>

\* SetLastScan up to its call of atomicWrite
SetLastScanEnter(network, t) ==
  /\ call = Idle
  /\ io = NoIO
  /\ lastScan' = Put(lastScan, network, t)
  /\ io' = [pc |-> "CreateTemp", path |-> "state", data |-> StateText(lastScan'),
            prev |-> stateFile, err |-> ""]
  /\ call' = Called("SetLastScan", <<network, t>>, "pending")
  /\ UNCHANGED <<now, devices, devicesFile, stateFile, tempFile, rest>>

\* os.CreateTemp
CreateTemp(ok) ==
  /\ io.pc = "CreateTemp"
  /\ IF ok
     THEN /\ tempFile' = FileOf(<<>>)
          /\ io' = [io EXCEPT !.pc = "Write"]
          /\ UNCHANGED call
     ELSE /\ io' = NoIO
          /\ call' = [call EXCEPT !.err = "failed to create temp file"]
          /\ UNCHANGED tempFile
  /\ UNCHANGED <<now, devices, lastScan, devicesFile, stateFile, rest>>

\* Write putting its bytes into the target file
Write_InPlace(ok) ==
  /\ io.pc = "Write"
  /\ IF ok
     THEN LET n == Len(tempFile.bytes) + 1
          IN /\ tempFile' = FileOf(SubSeq(io.data, 1, n))
             /\ devicesFile' = IF io.path = "devices" THEN tempFile' ELSE devicesFile
             /\ stateFile' = IF io.path = "state" THEN tempFile' ELSE stateFile
             /\ io' = [io EXCEPT !.pc = IF n = Len(io.data) THEN "Sync" ELSE "Write"]
     ELSE /\ io' = [io EXCEPT !.pc = "Cleanup", !.err = "failed to write temp file"]
          /\ UNCHANGED <<tempFile, devicesFile, stateFile>>
  /\ UNCHANGED <<now, devices, lastScan, call, rest>>

\* tempFile.Write: the data reaches the temp file chunk by chunk, or the write
\* fails with what has been written so far
Write(ok) ==
  /\ io.pc = "Write"
  /\ IF ok
     THEN LET n == Len(tempFile.bytes) + 1
          IN /\ tempFile' = FileOf(SubSeq(io.data, 1, n))
             /\ io' = [io EXCEPT !.pc = IF n = Len(io.data) THEN "Sync" ELSE "Write"]
     ELSE /\ io' = [io EXCEPT !.pc = "Cleanup", !.err = "failed to write temp file"]
          /\ UNCHANGED tempFile
  /\ UNCHANGED <<now, devices, lastScan, devicesFile, stateFile, call, rest>>

\* tempFile.Sync
Sync(ok) ==
  /\ io.pc = "Sync"
  /\ io' = IF ok THEN [io EXCEPT !.pc = "Close"]
           ELSE [io EXCEPT !.pc = "Cleanup", !.err = "failed to sync temp file"]
  /\ UNCHANGED <<now, devices, lastScan, devicesFile, stateFile, tempFile, call, rest>>

\* tempFile.Close
CloseTemp(ok) ==
  /\ io.pc = "Close"
  /\ io' = IF ok THEN [io EXCEPT !.pc = "Rename"]
           ELSE [io EXCEPT !.pc = "Cleanup", !.err = "failed to close temp file"]
  /\ UNCHANGED <<now, devices, lastScan, devicesFile, stateFile, tempFile, call, rest>>

\* os.Rename: the temp file takes the place of the target in one step
Rename(ok) ==
  /\ io.pc = "Rename"
  /\ IF ok
     THEN /\ devicesFile' = IF io.path = "devices" THEN tempFile ELSE devicesFile
          /\ stateFile' = IF io.path = "state" THEN tempFile ELSE stateFile
          /\ tempFile' = NoFile
          /\ io' = [io EXCEPT !.pc = "Renamed"]
     ELSE /\ io' = [io EXCEPT !.pc = "Cleanup", !.err = "failed to rename temp file"]
          /\ UNCHANGED <<devicesFile, stateFile, tempFile>>
  /\ UNCHANGED <<now, devices, lastScan, call, rest>>

\* the return after the rename: tempPath is cleared, the deferred function
\* removes nothing, the lock is released
Finish ==
  /\ io.pc = "Renamed"
  /\ io' = NoIO
  /\ call' = [call EXCEPT !.err = ""]
  /\ UNCHANGED <<now, devices, lastScan, devicesFile, stateFile, tempFile, rest>>

\* a failed call whose error is dropped on the way to the caller
Cleanup_Silent ==
  /\ io.pc = "Cleanup"
  /\ tempFile' = NoFile
  /\ io' = NoIO
  /\ call' = [call EXCEPT !.err = ""]
  /\ UNCHANGED <<now, devices, lastScan, devicesFile, stateFile, rest>>

\* the return after a failed call: the deferred function removes the temp file
Cleanup ==
  /\ io.pc = "Cleanup"
  /\ tempFile' = NoFile
  /\ io' = NoIO
  /\ call' = [call EXCEPT !.err = io.err]
  /\ UNCHANGED <<now, devices, lastScan, devicesFile, stateFile, rest>>

\* the process ends inside atomicWrite; the files stay as they are
Crash ==
  /\ io.pc \in InWrite \cup {"Renamed"}
  /\ io' = [io EXCEPT !.pc = "crashed", !.err = io.pc]
  /\ UNCHANGED <<now, devices, lastScan, devicesFile, stateFile, tempFile, call, rest>>

\* a new process constructs its Storage after the crash; the temp file of the
\* dead process keeps a name that no later write uses
Recover ==
  /\ io.pc = "crashed"
  /\ IF NewErr(devicesFile, stateFile) = ""
     THEN /\ devices' = loadDevices(devicesFile)
          /\ lastScan' = loadState(stateFile)
     ELSE /\ devices' = EmptyMap
          /\ lastScan' = EmptyMap
  /\ call' = Called("New", <<>>, NewErr(devicesFile, stateFile))
  /\ io' = NoIO
  /\ tempFile' = NoFile
  /\ UNCHANGED <<now, devicesFile, stateFile, rest>>

NextWrite ==
  \/ \E d \in Discovered : MergeDevicesEnter(<<d>>)
  \/ SetLastScanEnter(RangeOrder[1], now)
  \/ \E ok \in BOOLEAN : CreateTemp(ok)
  \/ \E ok \in BOOLEAN : Write(ok)
  \/ \E ok \in BOOLEAN : Sync(ok)
  \/ \E ok \in BOOLEAN : CloseTemp(ok)
  \/ \E ok \in BOOLEAN : Rename(ok)
  \/ Finish
  \/ Cleanup
  \/ Crash
  \/ Recover
  \/ Return
  \/ Tick

SpecWrite == Init /\ [][NextWrite]_vars

\* ------------------------------------------- construction over found files
\* The files a starting process can find in its data directory: texts an
\* earlier process has saved, and what is left of them when something other
\* than atomicWrite has cut them short.
Prefixes(text) == {SubSeq(text, 1, n) : n \in 0..Len(text)}

StoredMaps == {EmptyMap} \cup {MergeLoop(EmptyMap, <<d>>, 1, 1) : d \in Discovered}

DeviceFiles ==
  {NoFile} \cup {FileOf(bytes) : bytes \in UNION {Prefixes(DevicesText(m)) : m \in StoredMaps}}

BackupFiles ==
  { NoFile,
    FileOf(<<OpenBrace>>),
    FileOf(DevicesText(MergeLoop(EmptyMap, <<CHOOSE d \in Discovered : d.Label = "TV">>, 1, 1))) }

StateFiles ==
  {NoFile} \cup {FileOf(bytes) : bytes \in Prefixes(StateText(Put(EmptyMap, RangeOrder[1], 1)))}

\* a process is about to construct its Storage
InitLoad ==
  /\ now = 1
  /\ devices = EmptyMap
  /\ lastScan = EmptyMap
  /\ devicesFile \in DeviceFiles
  /\ stateFile \in StateFiles
  /\ backupFile \in BackupFiles
  /\ tempFile = NoFile
  /\ io = NoIO
  /\ call = Idle
  /\ mu = Unlocked
  /\ th = [t \in Goroutines |-> Waiting]
  /\ cli = NoProcess
  /\ scan = NoScan
  /\ heap = NoHeap

NextLoad ==
  \/ New
  \/ Return

SpecLoad == InitLoad /\ [][NextLoad]_vars

\* ------------------------------------------------------------ the scanner
\* scanner.New: minInterval in units of the clock
Scanner(minIntervalSeconds) == [minInterval |-> minIntervalSeconds, pc |-> "idle"]

\* CheckRateLimit refusing a scan at the very end of the interval
CheckRateLimit_Strict(s, last, t) ==
  IF last = ZeroTime THEN [allowed |-> TRUE, wait |-> 0]
  ELSE LET elapsed == t - last
       IN IF elapsed > s.minInterval THEN [allowed |-> TRUE, wait |-> 0]
          ELSE [allowed |-> FALSE, wait |-> s.minInterval - elapsed]

\* CheckRateLimit of Scanner s at time t
CheckRateLimit(s, last, t) ==
  IF last = ZeroTime THEN [allowed |-> TRUE, wait |-> 0]
  ELSE LET elapsed == t - last
       IN IF elapsed >= s.minInterval THEN [allowed |-> TRUE, wait |-> 0]
          ELSE [allowed |-> FALSE, wait |-> s.minInterval - elapsed]

\* GetLastScan answering with the latest scan of any range
GetLastScan_AnyRange(scans, network) ==
  IF DOMAIN scans = {} THEN ZeroTime
  ELSE scans[CHOOSE k \in DOMAIN scans : \A j \in DOMAIN scans : scans[j] <= scans[k]]

\* Storage.GetLastScan: the zero time for a range the map does not hold
GetLastScan(scans, network) ==
  IF network \in DOMAIN scans THEN scans[network] ELSE ZeroTime

\* ------------------------------------------------------------- statistics
\* GetStats over stores whose records carry either of two group tags or none,
\* were observed at different instants or never (an UpdateDevice of a record
\* without times).

\* time.Hour in units of the clock
Hour == 1

\* a record counted as online although it was observed a full hour ago
IsOnline_Inclusive(d, t) == d.LastSeen # ZeroTime /\ t - d.LastSeen <= Hour

\* types.Device.IsOnline: time.Since(d.LastSeen) < time.Hour; the zero time
\* lies two thousand years back
IsOnline(d, t) == d.LastSeen # ZeroTime /\ t - d.LastSeen < Hour

\* types.DeviceStats with an empty Groups map
NoStats == [Total |-> 0, Online |-> 0, Offline |-> 0, Groups |-> EmptyMap]

\* the loop of GetStats over the records not yet visited, in any order
RECURSIVE GetStatsRange(_, _, _, _)
GetStatsRange(devs, keys, t, stats) ==
  IF keys = {} THEN stats
  ELSE LET k == CHOOSE x \in keys : TRUE
           d == devs[k]
           counted ==
             [stats EXCEPT !.Total = @ + 1,
                           !.Online = IF IsOnline(d, t) THEN @ + 1 ELSE @,
                           !.Offline = IF IsOnline(d, t) THEN @ ELSE @ + 1]
           grouped ==
             IF d.Group # ""
             THEN [counted EXCEPT
                     !.Groups = Put(@, d.Group,
                                    IF d.Group \in DOMAIN @ THEN @[d.Group] + 1 ELSE 1)]
             ELSE counted
       IN GetStatsRange(devs, keys \ {k}, t, grouped)

GetStats(devs, t) == GetStatsRange(devs, DOMAIN devs, t, NoStats)

\* a caller asks the store for its statistics
GetStatsCall ==
  /\ call = Idle
  /\ call' = Called("GetStats", <<>>, "") @@ [result |-> GetStats(devices, now)]
  /\ UNCHANGED <<now, devices, lastScan, devicesFile, stateFile, tempFile, io, rest>>

\* one report per address
Sighted ==
  { Device(ip, CHOOSE lv \in Liveness : lv.ResponseTime = Nil, NoAnnotations,
           ZeroTime, ZeroTime) : ip \in Addr }

\* the group tags a user sets, the empty one clearing the tag
Tags == {<<"">>, <<"Living Room">>, <<"Office">>}

NextStats ==
  \/ \E discovered \in SeqsUpTo(Sighted, MaxBatch) : MergeDevices(discovered, TRUE)
  \/ \E device \in Sighted : UpdateDevice(device, TRUE)
  \/ \E ip \in Addr, group \in Tags : UpdateDeviceFields(ip, Nil, Nil, group, TRUE)
  \/ \E ip \in Addr : DeleteDevice(ip, TRUE)
  \/ GetStatsCall
  \/ Return
  \/ Tick

SpecStats == Init /\ [][NextStats]_vars

\* ------------------------------------- the server: handlers on goroutines
\* Every request runs its handler on a goroutine of its own against the one
\* Storage of the process.  A store method is entered at step "lock", runs its
\* body under the lock, writes the temp file and renames it where it saves,
\* and releases the lock when it returns.
Readers == {"GetLastScan", "GetDevices", "GetDevice", "GetStats"}
Mutations == {"MergeDevices", "UpdateDeviceFields", "DeleteDevice", "SetLastScan"}

\* Scanner.minInterval of the server, the default of the configuration
DefaultInterval == 2

\* what Scan returns to handleScan: a failure, or the hosts found
ScanOutcomes ==
  { [Success |-> FALSE, Devices |-> <<>>] }
  \cup { [Success |-> TRUE, Devices |-> <<Device(a, lv, NoAnnotations, ZeroTime, ZeroTime)>>] :
           a \in Addr, lv \in {l \in Liveness : l.ResponseTime = Nil} }

\* the address a request for one device names
Asked == AddrOrder[1]

\* the goroutine enters a store method
Enter(g, m) == [g EXCEPT !.pc = "call", !.m = m, !.step = "lock"]

\* the handler responds and the goroutine ends
Respond(g, status) ==
  [Waiting EXCEPT !.kind = g.kind, !.passed = g.passed, !.status = status]

\* net/http hands a request to a goroutine
Serve(t, kind) ==
  /\ th[t].pc = "idle"
  /\ th' = [th EXCEPT ![t] =
              Enter([Waiting EXCEPT !.kind = kind,
                                    !.cidr = IF kind = "handleScan" THEN RangeOrder[1] ELSE ""],
                    CASE kind = "handleScan" -> "GetLastScan"
                      [] kind = "handleDevices" -> "GetDevices"
                      [] kind = "handleDevice.GET" -> "GetDevice"
                      [] kind = "handleStats" -> "GetStats"
                      [] kind = "handleDevice.POST" -> "UpdateDeviceFields"
                      [] kind = "handleDevice.DELETE" -> "DeleteDevice")]
  /\ UNCHANGED <<now, devices, lastScan, devicesFile, stateFile, tempFile, io, call,
                 backupFile, mu, cli, scan, heap>>

\* s.mu.Lock taking a read lock
Lock_Shared(t) ==
  /\ th[t].pc = "call"
  /\ th[t].step = "lock"
  /\ th[t].m \in Mutations
  /\ mu.writer = 0
  /\ mu' = [mu EXCEPT !.readers = @ \cup {t}]
  /\ th' = [th EXCEPT ![t].step = "body"]
  /\ UNCHANGED <<now, devices, lastScan, devicesFile, stateFile, tempFile, io, call,
                 backupFile, cli, scan, heap>>

\* s.mu.Lock: waits until no goroutine holds the lock
Lock(t) ==
  /\ th[t].pc = "call"
  /\ th[t].step = "lock"
  /\ th[t].m \in Mutations
  /\ mu.writer = 0
  /\ mu.readers = {}
  /\ mu' = [mu EXCEPT !.writer = t]
  /\ th' = [th EXCEPT ![t].step = "body"]
  /\ UNCHANGED <<now, devices, lastScan, devicesFile, stateFile, tempFile, io, call,
                 backupFile, cli, scan, heap>>

\* s.mu.RLock: waits until no goroutine holds the write lock
RLock(t) ==
  /\ th[t].pc = "call"
  /\ th[t].step = "lock"
  /\ th[t].m \in Readers
  /\ mu.writer = 0
  /\ mu' = [mu EXCEPT !.readers = @ \cup {t}]
  /\ th' = [th EXCEPT ![t].step = "body"]
  /\ UNCHANGED <<now, devices, lastScan, devicesFile, stateFile, tempFile, io, call,
                 backupFile, cli, scan, heap>>

\* the body of GetLastScan
GetLastScanBody(t) ==
  /\ th[t].pc = "call" /\ th[t].step = "body" /\ th[t].m = "GetLastScan"
  /\ th' = [th EXCEPT ![t].last = GetLastScan(lastScan, th[t].cidr),
                      ![t].step = "unlock"]
  /\ UNCHANGED <<now, devices, lastScan, devicesFile, stateFile, tempFile, io, call,
                 backupFile, mu, cli, scan, heap>>

\* the body of GetDevices: the map is copied
GetDevicesBody(t) ==
  /\ th[t].pc = "call" /\ th[t].step = "body" /\ th[t].m = "GetDevices"
  /\ th' = [th EXCEPT ![t].step = "unlock"]
  /\ UNCHANGED <<now, devices, lastScan, devicesFile, stateFile, tempFile, io, call,
                 backupFile, mu, cli, scan, heap>>

\* the body of GetDevice; handleDevice answers 404 for an address without record
GetDeviceBody(t) ==
  /\ th[t].pc = "call" /\ th[t].step = "body" /\ th[t].m = "GetDevice"
  /\ th' = [th EXCEPT ![t].status = IF Asked \in DOMAIN devices THEN 0 ELSE 404,
                      ![t].step = "unlock"]
  /\ UNCHANGED <<now, devices, lastScan, devicesFile, stateFile, tempFile, io, call,
                 backupFile, mu, cli, scan, heap>>

\* the body of GetStats
GetStatsBody(t) ==
  /\ th[t].pc = "call" /\ th[t].step = "body" /\ th[t].m = "GetStats"
  /\ th' = [th EXCEPT ![t].data = GetStats(devices, now), ![t].step = "unlock"]
  /\ UNCHANGED <<now, devices, lastScan, devicesFile, stateFile, tempFile, io, call,
                 backupFile, mu, cli, scan, heap>>

\* the body of MergeDevices up to the call of atomicWrite
MergeDevicesBody(t) ==
  /\ th[t].pc = "call" /\ th[t].step = "body" /\ th[t].m = "MergeDevices"
  /\ devices' = MergeLoop(devices, th[t].found, 1, now)
  /\ th' = [th EXCEPT ![t].data = DevicesText(devices'), ![t].step = "write"]
  /\ UNCHANGED <<now, lastScan, devicesFile, stateFile, tempFile, io, call,
                 backupFile, mu, cli, scan, heap>>

\* the body of UpdateDeviceFields up to the call of atomicWrite
UpdateDeviceFieldsBody(t) ==
  /\ th[t].pc = "call" /\ th[t].step = "body" /\ th[t].m = "UpdateDeviceFields"
  /\ IF AddrOrder[1] \notin DOMAIN devices
     THEN /\ th' = [th EXCEPT ![t].status = 404, ![t].step = "unlock"]
          /\ UNCHANGED devices
     ELSE /\ devices' = [devices EXCEPT ![AddrOrder[1]] = SetFields(@, <<"TV">>, Nil, Nil)]
          /\ th' = [th EXCEPT ![t].data = DevicesText(devices'), ![t].step = "write"]
  /\ UNCHANGED <<now, lastScan, devicesFile, stateFile, tempFile, io, call,
                 backupFile, mu, cli, scan, heap>>

\* the body of DeleteDevice up to the call of atomicWrite
DeleteDeviceBody(t) ==
  /\ th[t].pc = "call" /\ th[t].step = "body" /\ th[t].m = "DeleteDevice"
  /\ IF AddrOrder[1] \notin DOMAIN devices
     THEN /\ th' = [th EXCEPT ![t].status = 404, ![t].step = "unlock"]
          /\ UNCHANGED devices
     ELSE /\ devices' = Remove(devices, AddrOrder[1])
          /\ th' = [th EXCEPT ![t].data = DevicesText(devices'), ![t].step = "write"]
  /\ UNCHANGED <<now, lastScan, devicesFile, stateFile, tempFile, io, call,
                 backupFile, mu, cli, scan, heap>>

\* the body of SetLastScan up to the call of atomicWrite
SetLastScanBody(t) ==
  /\ th[t].pc = "call" /\ th[t].step = "body" /\ th[t].m = "SetLastScan"
  /\ lastScan' = Put(lastScan, th[t].cidr, th[t].at)
  /\ th' = [th EXCEPT ![t].data = StateText(lastScan'), ![t].step = "write"]
  /\ UNCHANGED <<now, devices, devicesFile, stateFile, tempFile, io, call,
                 backupFile, mu, cli, scan, heap>>

\* atomicWrite up to the rename: the goroutine's own temp file holds the data
WriteTemp(t) ==
  /\ th[t].pc = "call" /\ th[t].step = "write"
  /\ th' = [th EXCEPT ![t].temp = FileOf(th[t].data), ![t].data = <<>>,
                      ![t].step = "rename"]
  /\ UNCHANGED <<now, devices, lastScan, devicesFile, stateFile, tempFile, io, call,
                 backupFile, mu, cli, scan, heap>>

\* atomicWrite fails: the temp file is removed, the target stays, the method
\* returns the error
SaveFails(t) ==
  /\ th[t].pc = "call" /\ th[t].step \in {"write", "rename"}
  /\ th' = [th EXCEPT ![t].temp = NoFile, ![t].data = <<>>, ![t].status = 500,
                      ![t].step = "unlock"]
  /\ UNCHANGED <<now, devices, lastScan, devicesFile, stateFile, tempFile, io, call,
                 backupFile, mu, cli, scan, heap>>

\* os.Rename of the goroutine's temp file over the target
RenameTemp(t) ==
  /\ th[t].pc = "call" /\ th[t].step = "rename"
  /\ IF th[t].m = "SetLastScan"
     THEN stateFile' = th[t].temp /\ UNCHANGED devicesFile
     ELSE devicesFile' = th[t].temp /\ UNCHANGED stateFile
  /\ th' = [th EXCEPT ![t].temp = NoFile, ![t].step = "unlock"]
  /\ UNCHANGED <<now, devices, lastScan, tempFile, io, call, backupFile, mu, cli, scan, heap>>

\* handleScan going on to SetLastScan whatever MergeDevices has returned
AfterCall_IgnoreError(g) ==
  CASE g.m = "GetLastScan" -> [g EXCEPT !.pc = "CheckRateLimit", !.m = "", !.step = ""]
    [] g.m = "MergeDevices" ->
         [Enter(g, "SetLastScan") EXCEPT !.found = <<>>, !.at = now, !.status = 0]
    [] g.m = "SetLastScan" -> Respond(g, 200)
    [] g.m = "GetDevices" -> Respond(g, 200)
    [] OTHER -> Respond(g, IF g.status = 404 THEN 404 ELSE 200)

\* the handler goes on after the store method has returned
AfterCall(g) ==
  CASE g.m = "GetLastScan" -> [g EXCEPT !.pc = "CheckRateLimit", !.m = "", !.step = ""]
    [] g.m = "MergeDevices" ->
         IF g.status = 500 THEN Respond(g, 500)
         ELSE [Enter(g, "SetLastScan") EXCEPT !.found = <<>>, !.at = now]
    [] g.m = "SetLastScan" -> Respond(g, 200)
    [] g.m = "GetDevices" -> Respond(g, 200)
    [] OTHER -> Respond(g, IF g.status = 404 THEN 404 ELSE 200)

\* the deferred s.mu.Unlock
Unlock(t) ==
  /\ th[t].pc = "call" /\ th[t].step = "unlock" /\ th[t].m \in Mutations
  /\ mu' = [mu EXCEPT !.writer = 0]
  /\ th' = [th EXCEPT ![t] = AfterCall(th[t])]
  /\ UNCHANGED <<now, devices, lastScan, devicesFile, stateFile, tempFile, io, call,
                 backupFile, cli, scan, heap>>

\* a read method returning with the read lock still held
RUnlock_Held(t) ==
  /\ th[t].pc = "call" /\ th[t].step = "unlock" /\ th[t].m \in Readers
  /\ th' = [th EXCEPT ![t] = AfterCall(th[t])]
  /\ UNCHANGED <<now, devices, lastScan, devicesFile, stateFile, tempFile, io, call,
                 backupFile, mu, cli, scan, heap>>

\* the deferred s.mu.RUnlock
RUnlock(t) ==
  /\ th[t].pc = "call" /\ th[t].step = "unlock" /\ th[t].m \in Readers
  /\ mu' = [mu EXCEPT !.readers = @ \ {t}]
  /\ th' = [th EXCEPT ![t] = AfterCall(th[t])]
  /\ UNCHANGED <<now, devices, lastScan, devicesFile, stateFile, tempFile, io, call,
                 backupFile, cli, scan, heap>>

\* handleScan between GetLastScan and Scan
RateLimit(t) ==
  /\ th[t].pc = "CheckRateLimit"
  /\ th' = [th EXCEPT ![t] =
              IF CheckRateLimit(scan, th[t].last, now).allowed
              THEN [@ EXCEPT !.pc = "Scan", !.passed = now, !.last = ZeroTime]
              ELSE Respond(@, 429)]
  /\ UNCHANGED <<now, devices, lastScan, devicesFile, stateFile, tempFile, io, call,
                 backupFile, mu, cli, scan, heap>>

\* handleScan from the return of Scan to the call of MergeDevices
Scanned(t, result) ==
  /\ th[t].pc = "Scan"
  /\ th' = [th EXCEPT ![t] =
              IF result.Success
              THEN [Enter(@, "MergeDevices") EXCEPT !.found = result.Devices]
              ELSE Respond(@, 500)]
  /\ UNCHANGED <<now, devices, lastScan, devicesFile, stateFile, tempFile, io, call,
                 backupFile, mu, cli, scan, heap>>

\* the server has constructed its Storage and its Scanner
InitServer ==
  /\ now = 1
  /\ devices = EmptyMap
  /\ lastScan = EmptyMap
  /\ devicesFile = NoFile
  /\ stateFile = NoFile
  /\ backupFile = NoFile
  /\ tempFile = NoFile
  /\ io = NoIO
  /\ call = Idle
  /\ mu = Unlocked
  /\ th = [t \in Goroutines |-> Waiting]
  /\ cli = NoProcess
  /\ scan = Scanner(DefaultInterval)
  /\ heap = NoHeap

Requests == {"handleScan", "handleDevices", "handleDevice.POST", "handleDevice.DELETE"}

NextServer ==
  \/ \E t \in Goroutines, kind \in Requests : Serve(t, kind)
  \/ \E t \in Goroutines : Lock(t)
  \/ \E t \in Goroutines : RLock(t)
  \/ \E t \in Goroutines : GetLastScanBody(t)
  \/ \E t \in Goroutines : GetDevicesBody(t)
  \/ \E t \in Goroutines : MergeDevicesBody(t)
  \/ \E t \in Goroutines : UpdateDeviceFieldsBody(t)
  \/ \E t \in Goroutines : DeleteDeviceBody(t)
  \/ \E t \in Goroutines : SetLastScanBody(t)
  \/ \E t \in Goroutines : WriteTemp(t)
  \/ \E t \in Goroutines : RenameTemp(t)
  \/ \E t \in Goroutines : Unlock(t)
  \/ \E t \in Goroutines : RUnlock(t)
  \/ \E t \in Goroutines : RateLimit(t)
  \/ \E t \in Goroutines, result \in ScanOutcomes : Scanned(t, result)
  \/ Tick

SpecServer == InitServer /\ [][NextServer]_vars

\* --------------------------------------- a CLI scan beside the server
\* `lan-orangutan scan` is a process of its own: runScan constructs a Storage
\* over the files of the server, and the two coordinate through the files
\* only.  Every save is a rename, so the processes interleave store call by
\* store call.
CliStart ==
  /\ call = Idle
  /\ cli = NoProcess
  /\ cli' = IF NewErr(devicesFile, stateFile) = ""
            THEN [pc |-> "CheckRateLimit", devices |-> loadDevices(devicesFile),
                  lastScan |-> loadState(stateFile), found |-> <<>>]
            ELSE NoProcess
  /\ call' = Called("cli.New", <<>>, NewErr(devicesFile, stateFile))
  /\ UNCHANGED <<now, devices, lastScan, devicesFile, stateFile, tempFile, io,
                 backupFile, mu, th, scan, heap>>

\* runScan from GetLastScan to the call of Scan; a refused range ends the loop
CliRateLimit ==
  /\ cli.pc = "CheckRateLimit"
  /\ cli' = IF CheckRateLimit(scan, GetLastScan(cli.lastScan, RangeOrder[1]), now).allowed
            THEN [cli EXCEPT !.pc = "Scan"]
            ELSE NoProcess
  /\ UNCHANGED <<now, devices, lastScan, devicesFile, stateFile, tempFile, io, call,
                 backupFile, mu, th, scan, heap>>

\* runScan from the return of Scan to the call of MergeDevices
CliScanned(result) ==
  /\ cli.pc = "Scan"
  /\ cli' = IF result.Success
            THEN [cli EXCEPT !.pc = "MergeDevices", !.found = result.Devices]
            ELSE NoProcess
  /\ UNCHANGED <<now, devices, lastScan, devicesFile, stateFile, tempFile, io, call,
                 backupFile, mu, th, scan, heap>>

\* store.MergeDevices of the CLI process
CliMergeDevices ==
  /\ call = Idle
  /\ cli.pc = "MergeDevices"
  /\ cli' = [cli EXCEPT !.pc = "SetLastScan",
                        !.devices = MergeLoop(cli.devices, cli.found, 1, now),
                        !.found = <<>>]
  /\ devicesFile' = saveDevices(cli'.devices, devicesFile, TRUE)
  /\ call' = Called("cli.MergeDevices", cli.found, "")
  /\ UNCHANGED <<now, devices, lastScan, stateFile, tempFile, io, backupFile, mu, th, scan, heap>>

\* store.SetLastScan of the CLI process, after which the process ends
CliSetLastScan ==
  /\ call = Idle
  /\ cli.pc = "SetLastScan"
  /\ stateFile' = saveState(Put(cli.lastScan, RangeOrder[1], now), stateFile, TRUE)
  /\ cli' = NoProcess
  /\ call' = Called("cli.SetLastScan", <<RangeOrder[1], now>>, "")
  /\ UNCHANGED <<now, devices, lastScan, devicesFile, tempFile, io, backupFile, mu, th, scan, heap>>

\* a server over an empty data directory, no CLI process yet
InitTwo ==
  /\ now = 1
  /\ devices = EmptyMap
  /\ lastScan = EmptyMap
  /\ devicesFile = NoFile
  /\ stateFile = NoFile
  /\ backupFile = NoFile
  /\ tempFile = NoFile
  /\ io = NoIO
  /\ call = Idle
  /\ mu = Unlocked
  /\ th = [t \in Goroutines |-> Waiting]
  /\ cli = NoProcess
  /\ scan = Scanner(DefaultInterval)
  /\ heap = NoHeap

NextTwo ==
  \/ \E result \in ScanOutcomes : result.Success /\ MergeDevices(result.Devices, TRUE)
  \/ UpdateDeviceFields(AddrOrder[1], <<"TV">>, Nil, Nil, TRUE)
  \/ \E ip \in Addr : DeleteDevice(ip, TRUE)
  \/ SetLastScan(RangeOrder[1], now, TRUE)
  \/ CliStart
  \/ CliRateLimit
  \/ \E result \in ScanOutcomes : CliScanned(result)
  \/ CliMergeDevices
  \/ CliSetLastScan
  \/ Return
  \/ Tick

SpecTwo == InitTwo /\ [][NextTwo]_vars

\* ------------------------------------------------------- rate limiting
\* The minimum interval is what the configuration file says: setValue stores
\* every integer strconv.Atoi accepts, and scanner.New takes it as it is.
Intervals == (-1)..(MaxTime + 1)

\* the time.Time values a caller can hand to CheckRateLimit
Times == ZeroTime..MaxTime

\* a caller asks the Scanner whether a scan may proceed
CheckRateLimitCall(last) ==
  /\ call = Idle
  /\ call' = Called("CheckRateLimit", last, "")
               @@ [result |-> CheckRateLimit(scan, last, now)]
  /\ UNCHANGED <<now, devices, lastScan, devicesFile, stateFile, tempFile, io, rest>>

\* a Storage over an empty data directory and a Scanner made from the
\* configuration
InitRate ==
  /\ now = 1
  /\ devices = EmptyMap
  /\ lastScan = EmptyMap
  /\ devicesFile = NoFile
  /\ stateFile = NoFile
  /\ backupFile = NoFile
  /\ tempFile = NoFile
  /\ io = NoIO
  /\ call = Idle
  /\ mu = Unlocked
  /\ th = [t \in Goroutines |-> Waiting]
  /\ cli = NoProcess
  /\ scan \in {Scanner(i) : i \in Intervals}
  /\ heap = NoHeap

NextRate ==
  \/ \E network \in RangeKeys : SetLastScan(network, now, TRUE)
  \/ \E last \in Times : CheckRateLimitCall(last)
  \/ Return
  \/ Tick

SpecRate == InitRate /\ [][NextRate]_vars

\* ------------------------------------------------------------------ Scan
\* One Scan call, one step per call it makes that can block, fail or start
\* something: the look-ups of the executables, the external processes, and
\* the reverse look-up of each host.  ctx is the caller's context; Cancel is
\* its deadline or cancellation.
Targets == <<"192.168.1.0/24", "192.168.1.7/24", "not-a-cidr", "192.168.1.0/33">>

\* net.ParseCIDR accepts the text
ParseCIDR(cidr) == cidr \in {"192.168.1.0/24", "192.168.1.7/24"}

\* the hosts a backend reports as up: its address and whether the output
\* names it
Hosts ==
  { [IP |-> AddrOrder[1], Named |-> TRUE], [IP |-> AddrOrder[2], Named |-> FALSE] }

Outputs == {q \in SeqsUpTo(Hosts, 2) : \A i, j \in 1..Len(q) : q[i] = q[j] => i = j}

\* a Scan call that has just begun
Begun(s, cidr) ==
  [minInterval |-> s.minInterval, pc |-> "ParseCIDR", cidr |-> cidr, ctx |-> "live",
   proc |-> "", tried |-> <<>>, started |-> <<>>, hosts |-> <<>>, found |-> <<>>,
   nmapErr |-> "", arpErr |-> "", result |-> Nil, err |-> ""]

\* scanWithNmap has returned an error: Scan calls scanWithArpScan
Fallback(s, err) ==
  [s EXCEPT !.pc = "arp.LookPath", !.nmapErr = err, !.proc = "", !.hosts = <<>>,
            !.found = <<>>, !.tried = Append(@, "arp-scan")]

\* Failed reporting the error of the first backend
Failed_First(s, err) ==
  [s EXCEPT !.pc = "returned", !.arpErr = err, !.proc = "",
            !.result = <<[Success |-> FALSE, Error |-> s.nmapErr, Devices |-> <<>>,
                          Network |-> s.cidr, Scanner |-> "", Timestamp |-> now]>>]

\* scanWithArpScan has returned an error too: the failure result
Failed(s, err) ==
  [s EXCEPT !.pc = "returned", !.arpErr = err, !.proc = "",
            !.result = <<[Success |-> FALSE, Error |-> err, Devices |-> <<>>,
                          Network |-> s.cidr, Scanner |-> "", Timestamp |-> now]>>]

\* a backend has returned its devices: the successful result
Succeeded(s, scanner) ==
  [s EXCEPT !.pc = "returned", !.hosts = <<>>,
            !.result = <<[Success |-> TRUE, Error |-> "", Devices |-> s.found,
                          Network |-> s.cidr, Scanner |-> scanner, Timestamp |-> now]>>]

\* exec.Cmd.Start under the context: nothing is started once ctx is done
Started(s, name) == [s EXCEPT !.proc = name, !.started = Append(@, <<name, s.ctx>>)]

ScanFrame == <<now, devices, lastScan, devicesFile, stateFile, tempFile, io, call,
               backupFile, mu, th, cli, heap>>

\* Scan is called: the range is validated and scanWithNmap entered
ScanCall(cidr) ==
  /\ scan.pc = "idle"
  /\ scan' = IF ParseCIDR(cidr)
             THEN [Begun(scan, cidr) EXCEPT !.pc = "nmap.LookPath", !.tried = <<"nmap">>]
             ELSE [Begun(scan, cidr) EXCEPT !.pc = "returned", !.err = "invalid CIDR"]
  /\ UNCHANGED ScanFrame

\* exec.LookPath("nmap")
NmapLookPath(found) ==
  /\ scan.pc = "nmap.LookPath"
  /\ scan' = IF found THEN [scan EXCEPT !.pc = "nmap.Start"]
             ELSE Fallback(scan, "nmap not found")
  /\ UNCHANGED ScanFrame

\* cmd.Output of nmap: the process starts, unless ctx is done already
NmapStart ==
  /\ scan.pc = "nmap.Start"
  /\ scan' = IF scan.ctx = "done" THEN Fallback(scan, "nmap failed")
             ELSE [Started(scan, "nmap") EXCEPT !.pc = "nmap.Wait"]
  /\ UNCHANGED ScanFrame

\* nmap exits: with an error, with output xml.Unmarshal rejects, or with hosts
NmapExit(outcome, output) ==
  /\ scan.pc = "nmap.Wait"
  /\ scan' = CASE outcome = "exit" -> Fallback(scan, "nmap failed")
               [] outcome = "garbage" -> Fallback(scan, "failed to parse nmap output")
               [] OTHER -> [scan EXCEPT !.pc = "nmap.Parse", !.proc = "", !.hosts = output]
  /\ UNCHANGED ScanFrame

\* reverseDNS: a look-up under a context of its own
reverseDNS(s) == [s EXCEPT !.started = Append(@, <<"LookupAddr", s.ctx>>)]

\* one round of the loop over the hosts of nmap
NmapHost ==
  /\ scan.pc = "nmap.Parse"
  /\ scan.hosts # <<>>
  /\ scan' = [(IF Head(scan.hosts).Named THEN scan ELSE reverseDNS(scan))
                EXCEPT !.hosts = Tail(@), !.found = Append(@, Head(scan.hosts).IP)]
  /\ UNCHANGED ScanFrame

\* scanWithNmap returns its devices
NmapDone ==
  /\ scan.pc = "nmap.Parse"
  /\ scan.hosts = <<>>
  /\ scan' = Succeeded(scan, "nmap")
  /\ UNCHANGED ScanFrame

\* exec.LookPath("arp-scan")
ArpLookPath(found) ==
  /\ scan.pc = "arp.LookPath"
  /\ scan' = IF found THEN [scan EXCEPT !.pc = "iface.Start"]
             ELSE Failed(scan, "arp-scan not found")
  /\ UNCHANGED ScanFrame

\* getInterfaceForCIDR: cmd.Output of `ip route get`
IfaceStart ==
  /\ scan.pc = "iface.Start"
  /\ scan' = IF scan.ctx = "done" THEN [scan EXCEPT !.pc = "arp.Start"]
             ELSE [Started(scan, "ip") EXCEPT !.pc = "iface.Wait"]
  /\ UNCHANGED ScanFrame

\* `ip route get` exits; with or without an interface the scan goes on
IfaceExit ==
  /\ scan.pc = "iface.Wait"
  /\ scan' = [scan EXCEPT !.pc = "arp.Start", !.proc = ""]
  /\ UNCHANGED ScanFrame

\* cmd.Output of arp-scan
ArpStart ==
  /\ scan.pc = "arp.Start"
  /\ scan' = IF scan.ctx = "done" THEN Failed(scan, "arp-scan failed")
             ELSE [Started(scan, "arp-scan") EXCEPT !.pc = "arp.Wait"]
  /\ UNCHANGED ScanFrame

\* arp-scan exits: with an error, or with lines
ArpExit(outcome, output) ==
  /\ scan.pc = "arp.Wait"
  /\ scan' = IF outcome = "exit" THEN Failed(scan, "arp-scan failed")
             ELSE [scan EXCEPT !.pc = "arp.Parse", !.proc = "", !.hosts = output]
  /\ UNCHANGED ScanFrame

\* one round of the loop over the lines of arp-scan
ArpHost ==
  /\ scan.pc = "arp.Parse"
  /\ scan.hosts # <<>>
  /\ scan' = [reverseDNS(scan)
                EXCEPT !.hosts = Tail(@), !.found = Append(@, Head(scan.hosts).IP)]
  /\ UNCHANGED ScanFrame

\* scanWithArpScan returns its devices
ArpDone ==
  /\ scan.pc = "arp.Parse"
  /\ scan.hosts = <<>>
  /\ scan' = Succeeded(scan, "arp-scan")
  /\ UNCHANGED ScanFrame

\* ctx is done while Scan runs; exec kills the process started under it, and
\* the cmd.Output that waits for it returns the error
Cancel ==
  /\ scan.pc \notin {"idle", "returned"}
  /\ scan.ctx = "live"
  /\ scan' = CASE scan.pc = "nmap.Wait" -> [Fallback(scan, "nmap failed") EXCEPT !.ctx = "done"]
               [] scan.pc = "iface.Wait" -> [scan EXCEPT !.pc = "arp.Start", !.proc = "", !.ctx = "done"]
               [] scan.pc = "arp.Wait" -> [Failed(scan, "arp-scan failed") EXCEPT !.ctx = "done"]
               [] OTHER -> [scan EXCEPT !.ctx = "done"]
  /\ UNCHANGED ScanFrame

\* the caller has taken the result
ScanReturn ==
  /\ scan.pc = "returned"
  /\ scan' = Scanner(scan.minInterval)
  /\ UNCHANGED ScanFrame

InitScan ==
  /\ now = 1
  /\ devices = EmptyMap
  /\ lastScan = EmptyMap
  /\ devicesFile = NoFile
  /\ stateFile = NoFile
  /\ backupFile = NoFile
  /\ tempFile = NoFile
  /\ io = NoIO
  /\ call = Idle
  /\ mu = Unlocked
  /\ th = [t \in Goroutines |-> Waiting]
  /\ cli = NoProcess
  /\ scan = Scanner(DefaultInterval)
  /\ heap = NoHeap

NextScan ==
  \/ \E i \in 1..Len(Targets) : ScanCall(Targets[i])
  \/ \E found \in BOOLEAN : NmapLookPath(found)
  \/ NmapStart
  \/ \E outcome \in {"exit", "garbage", "ok"}, output \in Outputs : NmapExit(outcome, output)
  \/ NmapHost
  \/ NmapDone
  \/ \E found \in BOOLEAN : ArpLookPath(found)
  \/ IfaceStart
  \/ IfaceExit
  \/ ArpStart
  \/ \E outcome \in {"exit", "ok"}, output \in Outputs : ArpExit(outcome, output)
  \/ ArpHost
  \/ ArpDone
  \/ Cancel
  \/ ScanReturn

SpecScan == InitScan /\ [][NextScan]_vars

\* ------------------------------------------- scans beside reads of the store
\* Scan requests for either range string and read requests, each on its own
\* goroutine; the save of a store method can fail.

\* net/http hands a scan request for a range to a goroutine
ServeScan(t, cidr) ==
  /\ th[t].pc = "idle"
  /\ th' = [th EXCEPT ![t] =
              Enter([Waiting EXCEPT !.kind = "handleScan", !.cidr = cidr], "GetLastScan")]
  /\ UNCHANGED <<now, devices, lastScan, devicesFile, stateFile, tempFile, io, call,
                 backupFile, mu, cli, scan, heap>>

\* the requests that only read the store
Reads == {"handleDevices", "handleDevice.GET", "handleStats"}

\* what Scan returns here: a failure, or the one host of the network
Reports == {r \in ScanOutcomes : r.Success => r.Devices[1].IP = Asked}

NextScans ==
  \/ \E t \in Goroutines, cidr \in RangeKeys : ServeScan(t, cidr)
  \/ \E t \in Goroutines, kind \in Reads : Serve(t, kind)
  \/ \E t \in Goroutines : Lock(t)
  \/ \E t \in Goroutines : RLock(t)
  \/ \E t \in Goroutines : GetLastScanBody(t)
  \/ \E t \in Goroutines : GetDevicesBody(t)
  \/ \E t \in Goroutines : GetDeviceBody(t)
  \/ \E t \in Goroutines : GetStatsBody(t)
  \/ \E t \in Goroutines : MergeDevicesBody(t)
  \/ \E t \in Goroutines : SetLastScanBody(t)
  \/ \E t \in Goroutines : WriteTemp(t)
  \/ \E t \in Goroutines : SaveFails(t)
  \/ \E t \in Goroutines : RenameTemp(t)
  \/ \E t \in Goroutines : Unlock(t)
  \/ \E t \in Goroutines : RUnlock(t)
  \/ \E t \in Goroutines : RateLimit(t)
  \/ \E t \in Goroutines, result \in Reports : Scanned(t, result)
  \/ Tick

SpecScans == InitServer /\ [][NextScans]_vars

\* ------------------------------------------------------- vendor resolution
\* A hardware address is the sequence of its characters, so that upper-casing,
\* the replacement of dashes and the cut of the prefix are computed as
\* GetMACVendor computes them.

\* macVendors: prefix -> vendor name
macVendors ==
  { <<<<"0", "0", ":", "5", "0", ":", "5", "6">>, "VMware">>,
    <<<<"0", "0", ":", "0", "C", ":", "2", "9">>, "VMware">>,
    <<<<"0", "8", ":", "0", "0", ":", "2", "7">>, "VirtualBox">>,
    <<<<"5", "2", ":", "5", "4", ":", "0", "0">>, "QEMU/KVM">>,
    <<<<"B", "8", ":", "2", "7", ":", "E", "B">>, "Raspberry Pi">>,
    <<<<"D", "C", ":", "A", "6", ":", "3", "2">>, "Raspberry Pi">>,
    <<<<"E", "4", ":", "5", "F", ":", "0", "1">>, "Raspberry Pi">>,
    <<<<"2", "8", ":", "C", "D", ":", "C", "1">>, "Raspberry Pi">>,
    <<<<"D", "8", ":", "3", "A", ":", "D", "D">>, "Raspberry Pi">>,
    <<<<"0", "0", ":", "E", "0", ":", "4", "C">>, "Realtek">>,
    <<<<"0", "0", ":", "1", "5", ":", "5", "D">>, "Microsoft Hyper-V">>,
    <<<<"0", "0", ":", "2", "3", ":", "A", "E">>, "Dell">>,
    <<<<"0", "0", ":", "1", "4", ":", "2", "2">>, "Dell">>,
    <<<<"1", "8", ":", "A", "9", ":", "9", "B">>, "Dell">>,
    <<<<"3", "C", ":", "D", "9", ":", "2", "B">>, "HP">>,
    <<<<"0", "0", ":", "1", "E", ":", "0", "B">>, "HP">>,
    <<<<"0", "0", ":", "2", "1", ":", "5", "A">>, "HP">>,
    <<<<"0", "0", ":", "1", "F", ":", "C", "6">>, "ASUSTek">>,
    <<<<"0", "0", ":", "1", "A", ":", "9", "2">>, "ASUSTek">>,
    <<<<"1", "4", ":", "D", "A", ":", "E", "9">>, "ASUSTek">>,
    <<<<"0", "0", ":", "1", "C", ":", "C", "0">>, "Intel">>,
    <<<<"0", "0", ":", "1", "F", ":", "3", "B">>, "Intel">>,
    <<<<"3", "C", ":", "A", "9", ":", "F", "4">>, "Intel">>,
    <<<<"5", "C", ":", "B", "9", ":", "0", "1">>, "Ubiquiti">>,
    <<<<"0", "0", ":", "2", "7", ":", "2", "2">>, "Ubiquiti">>,
    <<<<"0", "4", ":", "1", "8", ":", "D", "6">>, "Ubiquiti">>,
    <<<<"7", "4", ":", "8", "3", ":", "C", "2">>, "Ubiquiti">>,
    <<<<"F", "C", ":", "E", "C", ":", "D", "A">>, "Ubiquiti">>,
    <<<<"0", "0", ":", "1", "8", ":", "0", "A">>, "Cisco">>,
    <<<<"0", "0", ":", "1", "B", ":", "2", "A">>, "Cisco">>,
    <<<<"6", "4", ":", "F", "6", ":", "9", "D">>, "Cisco">>,
    <<<<"0", "0", ":", "1", "4", ":", "B", "F">>, "Linksys">>,
    <<<<"0", "0", ":", "1", "A", ":", "7", "0">>, "Linksys">>,
    <<<<"C", "0", ":", "C", "1", ":", "C", "0">>, "Linksys">>,
    <<<<"0", "0", ":", "1", "F", ":", "3", "3">>, "Netgear">>,
    <<<<"0", "0", ":", "2", "2", ":", "3", "F">>, "Netgear">>,
    <<<<"A", "0", ":", "6", "3", ":", "9", "1">>, "Netgear">>,
    <<<<"0", "8", ":", "8", "6", ":", "3", "B">>, "Belkin">>,
    <<<<"9", "4", ":", "1", "0", ":", "3", "E">>, "Belkin">>,
    <<<<"0", "0", ":", "2", "6", ":", "5", "A">>, "D-Link">>,
    <<<<"0", "0", ":", "1", "E", ":", "5", "8">>, "D-Link">>,
    <<<<"1", "C", ":", "7", "E", ":", "E", "5">>, "D-Link">>,
    <<<<"0", "0", ":", "1", "D", ":", "0", "F">>, "TP-Link">>,
    <<<<"1", "4", ":", "C", "C", ":", "2", "0">>, "TP-Link">>,
    <<<<"5", "0", ":", "C", "7", ":", "B", "F">>, "TP-Link">>,
    <<<<"0", "0", ":", "2", "5", ":", "0", "0">>, "Apple">>,
    <<<<"0", "0", ":", "2", "6", ":", "0", "8">>, "Apple">>,
    <<<<"2", "8", ":", "C", "F", ":", "D", "A">>, "Apple">>,
    <<<<"3", "C", ":", "1", "5", ":", "C", "2">>, "Apple">>,
    <<<<"5", "C", ":", "F", "9", ":", "3", "8">>, "Apple">>,
    <<<<"7", "8", ":", "3", "1", ":", "C", "1">>, "Apple">>,
    <<<<"1", "8", ":", "6", "5", ":", "9", "0">>, "Samsung">>,
    <<<<"5", "0", ":", "0", "1", ":", "B", "B">>, "Samsung">>,
    <<<<"9", "4", ":", "3", "5", ":", "0", "A">>, "Samsung">>,
    <<<<"2", "C", ":", "5", "4", ":", "9", "1">>, "Microsoft">>,
    <<<<"7", "C", ":", "1", "E", ":", "5", "2">>, "Microsoft">> }

LowerCase == <<"a", "b", "c", "d", "e", "f", "z">>
UpperCase == <<"A", "B", "C", "D", "E", "F", "Z">>

\* strings.ToUpper, on the letters the inputs use
ToUpper(text) ==
  [i \in 1..Len(text) |->
     IF \E j \in 1..Len(LowerCase) : LowerCase[j] = text[i]
     THEN UpperCase[CHOOSE j \in 1..Len(LowerCase) : LowerCase[j] = text[i]]
     ELSE text[i]]

\* strings.ReplaceAll(text, "-", ":")
ReplaceDashes(text) == [i \in 1..Len(text) |-> IF text[i] = "-" THEN ":" ELSE text[i]]

\* GetMACVendor
GetMACVendor(mac) ==
  IF mac = <<>> THEN "Unknown"
  ELSE LET normal == ToUpper(ReplaceDashes(mac))
       IN IF Len(normal) < 8 THEN "Unknown"
          ELSE LET prefix == SubSeq(normal, 1, 8)
               IN IF \E e \in macVendors : e[1] = prefix
                  THEN (CHOOSE e \in macVendors : e[1] = prefix)[2]
                  ELSE "Unknown"

\* the hardware addresses a backend reports: none, well-formed ones in either
\* case and with either separator, and malformed ones
HardwareAddresses ==
  { <<>>,
    <<"b", "8", "-", "2", "7", "-", "e", "b", "-", "0", "1", "-", "0", "2", "-", "0", "3">>,
    <<"B", "8", ":", "2", "7", ":", "E", "B", ":", "0", "1", ":", "0", "2", ":", "0", "3">>,
    <<"b", "8", ":", "2", "7", ":", "e", "b", ":", "0", "1", ":", "0", "2", ":", "0", "3">>,
    <<"B", "8", "-", "2", "7", "-", "E", "B", "-", "0", "1", "-", "0", "2", "-", "0", "3">>,
    <<"0", "0", ":", "5", "0", ":", "5", "6", ":", "a", "a", ":", "b", "b", ":", "c", "c">>,
    <<"0", "0", "-", "5", "0", "-", "5", "6", "-", "A", "A", "-", "B", "B", "-", "C", "C">>,
    <<"d", "c", ":", "a", "6", ":", "3", "2", ":", "0", "0", ":", "0", "0", ":", "0", "1">>,
    <<"0", "0", ":", "1", "1", ":", "2", "2", ":", "3", "3", ":", "4", "4", ":", "5", "5">>,
    <<"0", "0", "-", "1", "1", "-", "2", "2", "-", "3", "3", "-", "4", "4", "-", "5", "5">>,
    <<"b", "8", ":", "2", "7", ":", "e", "b">>,
    <<"b", "8", ":", "2", "7">>,
    <<"b", "8", "-", "2", "7", "-", "e">>,
    <<"z", "z", ":", "z", "z", ":", "z", "z", ":", "z", "z", ":", "z", "z", ":", "z", "z">>,
    <<"B", "8", "2", "7", "E", "B", "0", "1", "0", "2", "0", "3">> }

\* the vendor strings a backend supplies, the empty one for none
VendorStrings == {"", "Acme"}


\* scanWithNmap, the addresses of one host: the vendor attribute of the mac
\* address element if there is one, else a lookup when the host has a
\* hardware address
nmapVendor(mac, vendor) ==
  LET supplied == IF mac # <<>> THEN vendor ELSE ""
  IN IF supplied = "" /\ mac # <<>> THEN GetMACVendor(mac) ELSE supplied

\* scanWithArpScan, one line: the third column if it is not empty, else a
\* lookup
arpVendor(mac, vendor) ==
  IF vendor = "" THEN GetMACVendor(mac) ELSE vendor

\* a backend turns what it has parsed about one host into a Device
ParseHost(backend, ip, mac, vendor) ==
  /\ call = Idle
  /\ call' = Called(backend, <<ip, mac, vendor>>, "")
               @@ [result |-> IF backend = "nmap" THEN nmapVendor(mac, vendor)
                              ELSE arpVendor(mac, vendor)]
  /\ UNCHANGED <<now, devices, lastScan, devicesFile, stateFile, tempFile, io, rest>>

NextVendor ==
  \/ \E backend \in {"nmap", "arp-scan"}, ip \in Addr, mac \in HardwareAddresses,
        vendor \in VendorStrings : ParseHost(backend, ip, mac, vendor)
  \/ Return

SpecVendor == Init /\ [][NextVendor]_vars

\* ------------------------------------------------- the store as pointers
\* Storage.devices is a map of pointers.  heap.ref is that map, heap.obj the
\* Device each pointer leads to, heap.held the map a front end got from
\* GetDevices and heap.seen what its records held then.  A pointer is a
\* number; an object no pointer leads to any more is collected.

\* what the pointers of a map lead to
Deref(h) == [k \in DOMAIN h.ref |-> h.obj[h.ref[k]]]

Pointers(h) == {h.ref[k] : k \in DOMAIN h.ref} \cup {h.held[k] : k \in DOMAIN h.held}

\* the garbage collector
Collect(h) == [h EXCEPT !.obj = [p \in DOMAIN h.obj \cap Pointers(h) |-> h.obj[p]]]

\* the address of a new object
Alloc(h) ==
  CHOOSE p \in 1..(Cardinality(DOMAIN h.obj) + 1) :
    /\ p \notin DOMAIN h.obj
    /\ \A q \in 1..(p - 1) : q \in DOMAIN h.obj

\* the loop of MergeDevices with one variable d for all its rounds, as the
\* language had it before Go 1.22: every &d is the same pointer
MergeObjects_OneVariable(h, discovered, t) ==
  LET p == Alloc(h)
      RECURSIVE Loop(_, _)
      Loop(g, i) ==
        IF i > Len(discovered) THEN g
        ELSE LET assigned == [g EXCEPT !.obj = Put(@, p, discovered[i])]
                 d == assigned.obj[p]
             IN IF d.IP \in DOMAIN assigned.ref
                THEN Loop([assigned EXCEPT
                             !.obj[assigned.ref[d.IP]] =
                               [@ EXCEPT !.MAC = d.MAC, !.Hostname = d.Hostname,
                                         !.Vendor = d.Vendor, !.LastSeen = t,
                                         !.ResponseTime = d.ResponseTime]],
                          i + 1)
                ELSE Loop([assigned EXCEPT
                             !.obj[p] = [@ EXCEPT !.FirstSeen = t, !.LastSeen = t],
                             !.ref = Put(@, d.IP, p)],
                          i + 1)
  IN Loop(h, 1)

\* the loop of MergeDevices on the pointers: the record of a known address is
\* written in place, and &d of a new one is the address of the d of that round
\* (the loop variable is per round as of Go 1.22, the toolchain of the
\* Dockerfile)
MergeObjects(h, discovered, t) ==
  LET RECURSIVE Loop(_, _)
      Loop(g, i) ==
        IF i > Len(discovered) THEN g
        ELSE LET d == discovered[i]
             IN IF d.IP \in DOMAIN g.ref
                THEN Loop([g EXCEPT
                             !.obj[g.ref[d.IP]] =
                               [@ EXCEPT !.MAC = d.MAC, !.Hostname = d.Hostname,
                                         !.Vendor = d.Vendor, !.LastSeen = t,
                                         !.ResponseTime = d.ResponseTime]],
                          i + 1)
                ELSE LET p == Alloc(g)
                     IN Loop([g EXCEPT
                                !.obj = Put(@, p, [d EXCEPT !.FirstSeen = t, !.LastSeen = t]),
                                !.ref = Put(@, d.IP, p)],
                             i + 1)
  IN Loop(h, 1)

\* the frame of the operations on the pointers
ObjectFrame == <<now, lastScan, stateFile, tempFile, io, backupFile, mu, th, cli, scan>>

\* MergeDevices
MergeDevicesObjects(discovered) ==
  /\ call = Idle
  /\ heap' = Collect(MergeObjects(heap, discovered, now))
  /\ devices' = Deref(heap')
  /\ devicesFile' = saveDevices(devices', devicesFile, TRUE)
  /\ call' = Called("MergeDevices", discovered, "")
  /\ UNCHANGED ObjectFrame

\* UpdateDevice(device) with a pointer to a Device the caller has just made:
\* the back-fill writes into the caller's object, which becomes the record
UpdateDeviceObjects(device) ==
  /\ call = Idle
  /\ LET p == Alloc(heap)
         filled == IF device.IP \in DOMAIN heap.ref
                   THEN Backfill(device, heap.obj[heap.ref[device.IP]])
                   ELSE device
     IN heap' = Collect([heap EXCEPT !.obj = Put(@, p, filled),
                                     !.ref = Put(@, device.IP, p)])
  /\ devices' = Deref(heap')
  /\ devicesFile' = saveDevices(devices', devicesFile, TRUE)
  /\ call' = Called("UpdateDevice", device, "")
  /\ UNCHANGED ObjectFrame

\* UpdateDeviceFields: the record is written in place
UpdateDeviceFieldsObjects(ip, label, notes, group) ==
  /\ call = Idle
  /\ IF ip \notin DOMAIN heap.ref
     THEN /\ call' = Called("UpdateDeviceFields", <<ip, label, notes, group>>, "device not found")
          /\ UNCHANGED <<heap, devices, devicesFile>>
     ELSE /\ heap' = [heap EXCEPT !.obj[heap.ref[ip]] = SetFields(@, label, notes, group)]
          /\ devices' = Deref(heap')
          /\ devicesFile' = saveDevices(devices', devicesFile, TRUE)
          /\ call' = Called("UpdateDeviceFields", <<ip, label, notes, group>>, "")
  /\ UNCHANGED ObjectFrame

\* DeleteDevice: the pointer leaves the map
DeleteDeviceObjects(ip) ==
  /\ call = Idle
  /\ IF ip \notin DOMAIN heap.ref
     THEN /\ call' = Called("DeleteDevice", ip, "device not found")
          /\ UNCHANGED <<heap, devices, devicesFile>>
     ELSE /\ heap' = Collect([heap EXCEPT !.ref = Remove(@, ip)])
          /\ devices' = Deref(heap')
          /\ devicesFile' = saveDevices(devices', devicesFile, TRUE)
          /\ call' = Called("DeleteDevice", ip, "")
  /\ UNCHANGED ObjectFrame

\* GetDevices: a front end gets a new map with the pointers of the store and
\* looks at the records
GetDevicesObjects ==
  /\ call = Idle
  /\ heap.held = EmptyMap
  /\ heap.ref # EmptyMap
  /\ heap' = [heap EXCEPT !.held = heap.ref, !.seen = Deref(heap)]
  /\ call' = Called("GetDevices", <<>>, "")
  /\ UNCHANGED <<devices, devicesFile>>
  /\ UNCHANGED ObjectFrame

\* the front end has rendered its page and drops the map
Rendered ==
  /\ call = Idle
  /\ heap.held # EmptyMap
  /\ heap' = Collect([heap EXCEPT !.held = EmptyMap, !.seen = EmptyMap])
  /\ UNCHANGED <<devices, devicesFile, call>>
  /\ UNCHANGED ObjectFrame

\* what the callers of UpdateDevice pass: a report about either address
\* without annotations or times
Made == Sighted

\* the reports of a scan: the two backend reports, one per address
Seen ==
  { Device(AddrOrder[1], CHOOSE lv \in Liveness : lv.ResponseTime # Nil, NoAnnotations,
           ZeroTime, ZeroTime),
    Device(AddrOrder[2], CHOOSE lv \in Liveness : lv.ResponseTime = Nil, NoAnnotations,
           ZeroTime, ZeroTime) }

NextObjects ==
  \/ \E discovered \in SeqsUpTo(Seen, MaxBatch) : MergeDevicesObjects(discovered)
  \/ \E device \in Made : UpdateDeviceObjects(device)
  \/ \E ip \in Addr, label \in OptLabels : UpdateDeviceFieldsObjects(ip, label, Nil, Nil)
  \/ \E ip \in Addr : DeleteDeviceObjects(ip)
  \/ Return
  \/ Tick

SpecObjects == Init /\ [][NextObjects]_vars

\* a front end between the store operations of other requests: it holds the
\* map GetDevices returned while scans merge and the user edits a record
NextHeld ==
  \/ \E discovered \in SeqsUpTo(Seen, MaxBatch) : MergeDevicesObjects(discovered)
  \/ \E label \in OptLabels : UpdateDeviceFieldsObjects(Asked, label, Nil, Nil)
  \/ GetDevicesObjects
  \/ Rendered
  \/ Return
  \/ Tick

SpecHeld == Init /\ [][NextHeld]_vars

\* ------------------------------------- the scan handler and the scan loop
\* Scan requests to the server and a scan of the CLI, with saves that fail.

\* store.MergeDevices of the CLI process fails to save: the loop prints the
\* error and goes on to the next network, of which there is none
CliMergeFails ==
  /\ call = Idle
  /\ cli.pc = "MergeDevices"
  /\ cli' = NoProcess
  /\ call' = Called("cli.MergeDevices", cli.found, "write failed")
  /\ UNCHANGED <<now, devices, lastScan, devicesFile, stateFile, tempFile, io,
                 backupFile, mu, th, scan, heap>>

\* the goroutine of the server whose requests come one after the other
Sequential == {1}

NextLoop ==
  \/ \E t \in Sequential, cidr \in RangeKeys : ServeScan(t, cidr)
  \/ \E t \in Sequential : Lock(t)
  \/ \E t \in Sequential : RLock(t)
  \/ \E t \in Sequential : GetLastScanBody(t)
  \/ \E t \in Sequential : MergeDevicesBody(t)
  \/ \E t \in Sequential : SetLastScanBody(t)
  \/ \E t \in Sequential : WriteTemp(t)
  \/ \E t \in Sequential : SaveFails(t)
  \/ \E t \in Sequential : RenameTemp(t)
  \/ \E t \in Sequential : Unlock(t)
  \/ \E t \in Sequential : RUnlock(t)
  \/ \E t \in Sequential : RateLimit(t)
  \/ \E t \in Sequential, result \in Reports : Scanned(t, result)
  \/ CliStart
  \/ CliRateLimit
  \/ \E result \in Reports : CliScanned(result)
  \/ CliMergeDevices
  \/ CliMergeFails
  \/ CliSetLastScan
  \/ Return
  \/ Tick

SpecLoop == InitTwo /\ [][NextLoop]_vars

\* ================================================================ claims
Merged == call.op = "MergeDevices"

\* the addresses of a discovered list
Addresses(discovered) == {discovered[i].IP : i \in 1..Len(discovered)}

\* the last device of a list that has the address
LastFor(discovered, ip) ==
  discovered[CHOOSE i \in 1..Len(discovered) :
               /\ discovered[i].IP = ip
               /\ \A j \in (i + 1)..Len(discovered) : discovered[j].IP # ip]

SameAnnotations(r, e) == r.Label = e.Label /\ r.Notes = e.Notes /\ r.Group = e.Group

SameLiveness(r, d) ==
  /\ r.MAC = d.MAC
  /\ r.Hostname = d.Hostname
  /\ r.Vendor = d.Vendor
  /\ r.ResponseTime = d.ResponseTime

Perms(q) ==
  { [i \in 1..Len(q) |-> q[f[i]]] :
      f \in {g \in [1..Len(q) -> 1..Len(q)] : \A a, b \in 1..Len(q) : g[a] = g[b] => a = b} }

\* C1 as stated: after MergeDevices, for every discovered device d whose
\* address had a record, the record keeps label, notes, group and
\* first-observed, has d's hardware address, hostname, vendor and latency, and
\* has last-observed equal to the merge time.
C1_AsStated ==
  Merged =>
    \A i \in 1..Len(call.args) :
      LET d == call.args[i]
      IN d.IP \in DOMAIN call.devices =>
           /\ SameAnnotations(devices[d.IP], call.devices[d.IP])
           /\ devices[d.IP].FirstSeen = call.devices[d.IP].FirstSeen
           /\ SameLiveness(devices[d.IP], d)
           /\ devices[d.IP].LastSeen = call.at

\* C1 amended: after MergeDevices, for every discovered device d whose address
\* had a record, the record keeps label, notes, group and first-observed, has
\* the hardware address, hostname, vendor and latency of the last device of
\* the list that has d's address, and has last-observed equal to the merge time.
C1_MergeKeepsAnnotations ==
  Merged =>
    \A i \in 1..Len(call.args) :
      LET d == call.args[i]
      IN d.IP \in DOMAIN call.devices =>
           /\ SameAnnotations(devices[d.IP], call.devices[d.IP])
           /\ devices[d.IP].FirstSeen = call.devices[d.IP].FirstSeen
           /\ SameLiveness(devices[d.IP], LastFor(call.args, d.IP))
           /\ devices[d.IP].LastSeen = call.at

\* the scenario of the specification: a labelled record is seen again with a
\* new hostname at a later time
C1_Witness ==
  /\ Merged
  /\ \E i \in 1..Len(call.args) :
       LET d == call.args[i]
       IN /\ d.IP \in DOMAIN call.devices
          /\ call.devices[d.IP].Label = "TV"
          /\ d.Label = ""
          /\ call.devices[d.IP].Hostname # d.Hostname
          /\ devices[d.IP].Hostname = d.Hostname
          /\ devices[d.IP].Label = "TV"
          /\ call.devices[d.IP].LastSeen < devices[d.IP].LastSeen

\* C2: after MergeDevices, the record of every discovered device whose address
\* had no record has first-observed = last-observed = the merge time and an
\* empty label, notes and group, whatever the discovered device carries.
C2_NewRecordIsBlank ==
  Merged =>
    \A i \in 1..Len(call.args) :
      LET d == call.args[i]
      IN d.IP \notin DOMAIN call.devices =>
           /\ devices[d.IP].FirstSeen = call.at
           /\ devices[d.IP].LastSeen = call.at
           /\ devices[d.IP].Label = ""
           /\ devices[d.IP].Notes = ""
           /\ devices[d.IP].Group = ""

\* C3: when the list MergeDevices has just merged is merged again, at the same
\* or any later time, the map equals the map after the first merge in every
\* field of every record, except last-observed of the records of the list's
\* addresses.
C3_MergeTwice ==
  Merged =>
    \A t \in call.at..MaxTime :
      LET twice == MergeLoop(devices, call.args, 1, t)
      IN /\ DOMAIN twice = DOMAIN devices
         /\ \A k \in DOMAIN devices :
              IF k \in Addresses(call.args)
              THEN [twice[k] EXCEPT !.LastSeen = ZeroTime]
                     = [devices[k] EXCEPT !.LastSeen = ZeroTime]
              ELSE twice[k] = devices[k]

\* one discovery has been merged into a store of two records and changed the
\* record of its address, and merging it again later moves last-observed
C3_Witness ==
  /\ Merged
  /\ Len(call.args) = 1
  /\ DOMAIN call.devices = Addr
  /\ call.devices[call.args[1].IP].MAC # devices[call.args[1].IP].MAC
  /\ call.at < MaxTime
  /\ MergeLoop(devices, call.args, 1, call.at + 1)[call.args[1].IP].LastSeen
       > devices[call.args[1].IP].LastSeen

\* C4 as stated: MergeDevices applied to any permutation of the discovered
\* list yields the same device map, lists with a repeated address included.
C4_AsStated ==
  Merged => \A q \in Perms(call.args) : MergeLoop(call.devices, q, 1, call.at) = devices

\* C4 amended: MergeDevices applied to any permutation of the discovered list
\* yields the same device map, provided the devices of the list that share an
\* address are equal.
C4_OrderOfDistinctAddresses ==
  (Merged /\ \A i, j \in 1..Len(call.args) :
               call.args[i].IP = call.args[j].IP => call.args[i] = call.args[j]) =>
    \A q \in Perms(call.args) : MergeLoop(call.devices, q, 1, call.at) = devices

\* a list of a known and an unknown address has been merged
C4_Witness ==
  /\ Merged
  /\ Len(call.args) = 2
  /\ call.args[1].IP \in DOMAIN call.devices
  /\ call.args[2].IP \notin DOMAIN call.devices
  /\ call.devices[call.args[1].IP].MAC # call.args[1].MAC
  /\ DOMAIN devices = Addr

\* C5: UpdateDeviceFields on an existing record changes neither its address,
\* first-observed, hardware address, hostname, vendor nor last-observed, leaves
\* each annotation whose argument is nil as it was, and changes no other record.
C5_UpdateFieldsFrame ==
  (call.op = "UpdateDeviceFields" /\ call.err = "") =>
    LET ip == call.args[1]
        e == call.devices[ip]
        r == devices[ip]
    IN /\ DOMAIN devices = DOMAIN call.devices
       /\ r.IP = e.IP
       /\ r.FirstSeen = e.FirstSeen
       /\ r.MAC = e.MAC
       /\ r.Hostname = e.Hostname
       /\ r.Vendor = e.Vendor
       /\ r.LastSeen = e.LastSeen
       /\ call.args[2] = Nil => r.Label = e.Label
       /\ call.args[3] = Nil => r.Notes = e.Notes
       /\ call.args[4] = Nil => r.Group = e.Group
       /\ \A k \in DOMAIN devices \ {ip} : devices[k] = call.devices[k]

\* the notes of a labelled record are set while another record exists
C5_Witness ==
  /\ call.op = "UpdateDeviceFields"
  /\ call.err = ""
  /\ call.args[2] = Nil
  /\ call.args[3] # Nil
  /\ call.args[4] = Nil
  /\ call.devices[call.args[1]].Label = "TV"
  /\ call.devices[call.args[1]].Group = "Living Room"
  /\ call.devices[call.args[1]].Notes # devices[call.args[1]].Notes
  /\ DOMAIN devices = Addr

\* C6: every address that has a record keeps it across MergeDevices,
\* UpdateDevice, UpdateDeviceFields and SetLastScan, and DeleteDevice removes
\* the one address it is given.
C6_OnlyDeleteRemoves ==
  /\ call.op \in {"MergeDevices", "UpdateDevice", "UpdateDeviceFields", "SetLastScan"} =>
       DOMAIN call.devices \subseteq DOMAIN devices
  /\ call.op = "DeleteDevice" => DOMAIN call.devices \ DOMAIN devices \subseteq {call.args}

\* a merge has left out an address that has a record
C6_Witness ==
  /\ Merged
  /\ \E k \in DOMAIN call.devices : k \notin Addresses(call.args) /\ k \in DOMAIN devices
  /\ Len(call.args) > 0

\* C7: across MergeDevices, UpdateDevice and UpdateDeviceFields a record that
\* exists before and after keeps its first-observed.
C7_FirstSeenFixed ==
  call.op \in {"MergeDevices", "UpdateDevice", "UpdateDeviceFields"} =>
    \A k \in DOMAIN call.devices \cap DOMAIN devices :
      devices[k].FirstSeen = call.devices[k].FirstSeen

\* C8: across MergeDevices, UpdateDevice and UpdateDeviceFields the
\* last-observed of a record that exists before and after does not decrease.
C8_LastSeenForward ==
  call.op \in {"MergeDevices", "UpdateDevice", "UpdateDeviceFields"} =>
    \A k \in DOMAIN call.devices \cap DOMAIN devices :
      devices[k].LastSeen >= call.devices[k].LastSeen

\* C9: while atomicWrite runs and when the process ends inside it, the target
\* holds its complete previous content up to the rename and the complete new
\* content after it, and neither file ever holds a partly written text.
C9_AtomicWrite ==
  /\ io.pc \in InWrite => Target(io.path) = io.prev
  /\ io.pc = "Renamed" => Target(io.path) = FileOf(io.data)
  /\ io.pc = "crashed" =>
       /\ Target(io.path) = IF io.err = "Renamed" THEN FileOf(io.data) ELSE io.prev
       /\ NewErr(devicesFile, stateFile) = ""
  /\ \A file \in {devicesFile, stateFile} : file.exists => ValidJSON(file.bytes)

\* the process has ended between the write of the temp file and the rename,
\* over a devices file that holds an earlier map
C9_Witness ==
  /\ io.pc = "crashed"
  /\ io.err \in {"Sync", "Close", "Rename"}
  /\ io.path = "devices"
  /\ tempFile = FileOf(io.data)
  /\ devicesFile.exists
  /\ devicesFile # tempFile
  /\ loadDevices(devicesFile) = call.devices

C11_BackupBeforeSave ==
  (/\ call.op \in {"MergeDevices", "UpdateDevice", "UpdateDeviceFields", "DeleteDevice"}
   /\ call.err = ""
   /\ call.devicesFile.exists) =>
    backupFile = call.devicesFile

\* C12: New never returns an error for what the persisted files hold; the
\* Storage it returns holds the map of the devices file when that file is
\* present and parses, else the map of the ".backup" file when that one is
\* present and parses, else the empty map.
C12_RecoveryOnLoad ==
  call.op = "New" =>
    /\ call.err = ""
    /\ devices =
         IF devicesFile.exists /\ loadDevicesErr(devicesFile) = ""
         THEN loadDevices(devicesFile)
         ELSE IF backupFile.exists /\ loadDevicesErr(backupFile) = ""
         THEN loadDevices(backupFile)
         ELSE EmptyMap

\* the goroutines inside a store method: past its Lock or RLock and not yet
\* past its deferred unlock
Inside(methods) ==
  {t \in Goroutines : th[t].pc = "call" /\ th[t].step # "lock" /\ th[t].m \in methods}

Passed ==
  {t \in Goroutines : th[t].kind = "handleScan" /\ th[t].pc # "idle" /\ th[t].passed # ZeroTime}

\* C17: of two scan requests for the same range that are in progress together,
\* at most one has passed the rate-limit check within one minimum interval.
C17_CheckAndUpdateAtomic ==
  \A t, u \in Passed :
    t # u =>
      \/ th[t].passed - th[u].passed >= scan.minInterval
      \/ th[u].passed - th[t].passed >= scan.minInterval

\* C14: every record the devices file holds before a successful merge or
\* field update of either process is in the file after it, and a merge leaves
\* the label, notes and group of those records as they were in the file.
C14_NoLostUpdate ==
  (/\ call.op \in {"MergeDevices", "cli.MergeDevices", "UpdateDeviceFields"}
   /\ call.err = "") =>
    LET before == loadDevices(call.devicesFile)
        after == loadDevices(devicesFile)
    IN \A k \in DOMAIN before :
         /\ k \in DOMAIN after
         /\ call.op # "UpdateDeviceFields" => SameAnnotations(after[k], before[k])

\* C15: CheckRateLimit(lastScanTime) allows with a zero wait when lastScanTime
\* is the zero time; otherwise it allows iff the time elapsed since
\* lastScanTime is at least the minimum interval, and when it refuses, the
\* wait is the minimum interval minus the elapsed time.
C15_CheckRateLimit ==
  call.op = "CheckRateLimit" =>
    LET last == call.args
        elapsed == call.at - last
        r == call.result
    IN /\ last = ZeroTime => (r.allowed /\ r.wait = 0)
       /\ last # ZeroTime =>
            /\ r.allowed <=> elapsed >= scan.minInterval
            /\ ~r.allowed => r.wait = scan.minInterval - elapsed

\* a check exactly one interval after the last scan has been allowed
C15_Witness ==
  /\ call.op = "CheckRateLimit"
  /\ call.args # ZeroTime
  /\ scan.minInterval > 0
  /\ call.at - call.args = scan.minInterval
  /\ call.result.allowed

\* the check CheckRateLimit(GetLastScan(key)) made at time t
CheckAt(key, t) == CheckRateLimit(scan, GetLastScan(lastScan, key), t)

C18_MalformedRange ==
  (scan.pc = "returned" /\ ~ParseCIDR(scan.cidr)) =>
    /\ scan.result # Nil
    /\ ~scan.result[1].Success
    /\ scan.result[1].Error # ""
    /\ scan.err = ""
    /\ scan.started = <<>>

\* C19: nmap is attempted first and arp-scan only after nmap has returned an
\* error; a successful result names nmap iff nmap succeeded and arp-scan iff
\* nmap failed and arp-scan succeeded, and carries the devices of that
\* backend; when both fail the result has success=false and the error of
\* arp-scan.
C19_BackendOrder ==
  (scan.pc # "idle" /\ ParseCIDR(scan.cidr)) =>
    /\ scan.tried \in {<<"nmap">>, <<"nmap", "arp-scan">>}
    /\ Len(scan.tried) = 2 <=> scan.nmapErr # ""
    /\ \A i \in 1..Len(scan.started) :
         scan.started[i][1] \in {"ip", "arp-scan"} => scan.nmapErr # ""
    /\ scan.pc = "returned" =>
         LET r == scan.result[1]
         IN /\ scan.err = ""
            /\ r.Success <=> (scan.nmapErr = "" \/ scan.arpErr = "")
            /\ r.Success => /\ r.Scanner = "nmap" <=> scan.nmapErr = ""
                            /\ r.Scanner = "arp-scan" <=> scan.nmapErr # ""
                            /\ r.Devices = scan.found
            /\ ~r.Success => r.Error = scan.arpErr /\ r.Error # ""

\* nmap has run and failed, arp-scan has run after it and produced the devices
C19_Witness ==
  /\ scan.pc = "returned"
  /\ scan.result # Nil
  /\ scan.result[1].Success
  /\ scan.result[1].Scanner = "arp-scan"
  /\ Len(scan.result[1].Devices) = 2
  /\ scan.nmapErr = "failed to parse nmap output"
  /\ \E i, j \in 1..Len(scan.started) :
       i < j /\ scan.started[i][1] = "nmap" /\ scan.started[j][1] = "arp-scan"

\* C20: when ctx is done while Scan runs, nothing is started afterwards, no
\* external process is left running, and Scan returns a failure result.
C20_HonorsCancellation ==
  scan.pc # "idle" =>
    /\ \A i \in 1..Len(scan.started) : scan.started[i][2] = "live"
    /\ scan.ctx = "done" => scan.proc = ""
    /\ (scan.pc = "returned" /\ scan.ctx = "done") =>
         /\ scan.result # Nil
         /\ ~scan.result[1].Success

RECURSIVE SumOver(_, _)
SumOver(f, keys) ==
  IF keys = {} THEN 0
  ELSE LET k == CHOOSE x \in keys : TRUE IN f[k] + SumOver(f, keys \ {k})

\* C22: GetStats returns total equal to the number of records, online equal to
\* the number of records last observed less than one hour before the call,
\* offline equal to total minus online, and for each non-empty group tag the
\* number of records that carry it, with no entry for the empty tag, so that
\* the group counts sum to the number of records with a non-empty group.
C22_GetStats ==
  call.op = "GetStats" =>
    LET stats == call.result
        keys == DOMAIN call.devices
        tags == {call.devices[k].Group : k \in keys} \ {""}
    IN /\ stats.Total = Cardinality(keys)
       /\ stats.Online =
            Cardinality({k \in keys : /\ call.devices[k].LastSeen # ZeroTime
                                      /\ call.devices[k].LastSeen + Hour > call.at})
       /\ stats.Offline = stats.Total - stats.Online
       /\ DOMAIN stats.Groups = tags
       /\ \A g \in tags :
            stats.Groups[g] = Cardinality({k \in keys : call.devices[k].Group = g})
       /\ SumOver(stats.Groups, DOMAIN stats.Groups) =
            Cardinality({k \in keys : call.devices[k].Group # ""})
       /\ devices = call.devices

\* statistics of a store with one record seen within the hour and one seen an
\* hour ago, both in the same group
C22_Witness ==
  /\ call.op = "GetStats"
  /\ call.result.Total = 2
  /\ call.result.Online = 1
  /\ call.result.Offline = 1
  /\ \E g \in DOMAIN call.result.Groups : call.result.Groups[g] = 2
  /\ \A k \in DOMAIN devices : devices[k].LastSeen # ZeroTime

\* C23: after UpdateDevice(r) on an address that has a record e, the record
\* stored has label, notes, group and first-observed equal to r's value where
\* r's value is non-blank (non-zero for first-observed) and to e's value where
\* it is blank, and every other field equal to r's; when the address has no
\* record, r is stored as given.  No other record changes.
C23_UpdateDevice ==
  call.op = "UpdateDevice" =>
    LET r == call.args
        k == r.IP
    IN /\ DOMAIN devices = DOMAIN call.devices \cup {k}
       /\ \A other \in DOMAIN call.devices \ {k} : devices[other] = call.devices[other]
       /\ IF k \in DOMAIN call.devices
          THEN LET e == call.devices[k]
                   s == devices[k]
               IN /\ s.Label = (IF r.Label # "" THEN r.Label ELSE e.Label)
                  /\ s.Notes = (IF r.Notes # "" THEN r.Notes ELSE e.Notes)
                  /\ s.Group = (IF r.Group # "" THEN r.Group ELSE e.Group)
                  /\ s.FirstSeen = (IF r.FirstSeen # ZeroTime THEN r.FirstSeen ELSE e.FirstSeen)
                  /\ s.IP = r.IP
                  /\ SameLiveness(s, r)
                  /\ s.LastSeen = r.LastSeen
          ELSE devices[k] = r

\* UpdateDevice with blank annotations and no times on an address whose record
\* is annotated and was first seen earlier: the annotations and first-observed
\* stay, the liveness data and last-observed are the caller's
C23_Witness ==
  /\ call.op = "UpdateDevice"
  /\ call.args.IP \in DOMAIN call.devices
  /\ call.args.Label = ""
  /\ call.args.FirstSeen = ZeroTime
  /\ call.args.LastSeen = ZeroTime
  /\ call.devices[call.args.IP].Label = "TV"
  /\ call.devices[call.args.IP].FirstSeen # ZeroTime
  /\ call.devices[call.args.IP].LastSeen # ZeroTime
  /\ ~SameLiveness(call.devices[call.args.IP], call.args)
  /\ devices[call.args.IP].Label = "TV"

\* C24: the rate-limit state is keyed by the exact range string.
\* SetLastScan(k, t) sets the entry for k and no other; GetLastScan(k') of
\* every other string k' answers what it answered before, and so does the
\* rate-limit check of a request for k', also when k' denotes the network that
\* k denotes.
C24_ExactKey ==
  call.op = "SetLastScan" =>
    LET k == call.args[1]
    IN /\ GetLastScan(lastScan, k) = call.args[2]
       /\ DOMAIN lastScan = DOMAIN call.lastScan \cup {k}
       /\ \A other \in RangeKeys \ {k} :
            /\ GetLastScan(lastScan, other) = GetLastScan(call.lastScan, other)
            /\ CheckAt(other, call.at) =
                 CheckRateLimit(scan, GetLastScan(call.lastScan, other), call.at)

\* a scan of one range string has just been recorded an interval after a scan
\* of the other string for the same network: a request for the first is
\* refused, a request for the other is allowed and finds its own earlier time
C24_Witness ==
  /\ call.op = "SetLastScan"
  /\ scan.minInterval >= 1
  /\ \E other \in RangeKeys \ {call.args[1]} :
       /\ other \in DOMAIN lastScan
       /\ lastScan[other] < lastScan[call.args[1]]
       /\ CheckAt(other, call.at).allowed
  /\ ~CheckAt(call.args[1], call.at).allowed

\* C25: the external scan runs outside the store lock and only the store
\* methods hold it: a goroutine waiting on its scan holds neither the write
\* lock nor a read lock, whoever holds the lock is inside a store method, and
\* a read method that waits for the lock while every other goroutine is
\* scanning, checking the rate limit or idle can take the read lock at once.
C25_ScanOutsideLock ==
  /\ \A t \in Goroutines :
       th[t].pc \in {"Scan", "CheckRateLimit", "idle"} =>
         (mu.writer # t /\ t \notin mu.readers)
  /\ mu.writer # 0 =>
       /\ th[mu.writer].pc = "call"
       /\ th[mu.writer].m \in Mutations
       /\ th[mu.writer].step \in {"body", "write", "rename", "unlock"}
  /\ \A r \in mu.readers :
       /\ th[r].pc = "call"
       /\ th[r].m \in Readers
       /\ th[r].step \in {"body", "unlock"}
  /\ \A u \in Goroutines :
       ( /\ th[u].pc = "call"
         /\ th[u].m \in Readers
         /\ th[u].step = "lock"
         /\ \A t \in Goroutines \ {u} : th[t].pc \in {"Scan", "CheckRateLimit", "idle"} )
       => ENABLED RLock(u)

\* scans of the two range strings are waiting on their external processes at
\* the same time, and nobody holds the lock
C25_Witness ==
  /\ \A t \in Goroutines : th[t].pc = "Scan"
  /\ \E t, u \in Goroutines : th[t].cidr # th[u].cidr
  /\ mu = Unlocked

\* C26: every device of either backend for which the backend supplied no
\* vendor string has the vendor the table gives for the upper-cased,
\* dash-normalized first three octets of its hardware address, and "Unknown"
\* when the table has no such prefix or the hardware address is malformed or
\* missing; its vendor is never the empty string.
C26_VendorResolved ==
  (call.op \in {"nmap", "arp-scan"} /\ call.args[3] = "") =>
    LET mac == call.args[2]
        prefix == IF Len(mac) >= 8 THEN ToUpper(ReplaceDashes(SubSeq(mac, 1, 8))) ELSE <<>>
    IN /\ call.result # ""
       /\ call.result = IF \E e \in macVendors : e[1] = prefix
                        THEN (CHOOSE e \in macVendors : e[1] = prefix)[2]
                        ELSE "Unknown"

C28_Step ==
  /\ lastScan' # lastScan =>
       \E t \in Goroutines :
         /\ th[t].pc = "call" /\ th[t].m = "SetLastScan" /\ th[t].step = "body"
         /\ lastScan' = Put(lastScan, th[t].cidr, th[t].at)
  /\ \A t \in Goroutines :
       /\ (th'[t].m = "SetLastScan" /\ th[t].m # "SetLastScan") =>
            /\ th[t].m = "MergeDevices" /\ th[t].step = "unlock" /\ th[t].status # 500
            /\ th'[t].cidr = th[t].cidr
            /\ th'[t].at = now
       /\ (th[t].m = "MergeDevices" /\ th'[t].step = "unlock" /\ th[t].step # "unlock"
             /\ th'[t].status # 500) =>
            devicesFile' = FileOf(DevicesText(devices))
       /\ (th'[t].m = "MergeDevices" /\ th[t].m # "MergeDevices") =>
            /\ th[t].pc = "Scan"
            /\ th'[t].cidr = th[t].cidr
       /\ (th[t].pc = "Scan" /\ th'[t].pc = "idle") => th'[t].status = 500
       /\ (th'[t].pc = "Scan" /\ th[t].pc # "Scan") =>
            /\ th[t].pc = "CheckRateLimit"
            /\ CheckRateLimit(scan, th[t].last, now).allowed
            /\ th'[t].cidr = th[t].cidr
       /\ (th[t].pc = "CheckRateLimit" /\ th'[t].pc = "idle") =>
            /\ th'[t].status = 429
            /\ ~CheckRateLimit(scan, th[t].last, now).allowed
  /\ stateFile' # stateFile =>
       \/ \E t \in Goroutines :
            /\ th[t].m = "SetLastScan" /\ th[t].step = "rename"
            /\ stateFile' = th[t].temp
       \/ /\ cli.pc = "SetLastScan"
          /\ stateFile' = FileOf(StateText(Put(cli.lastScan, RangeOrder[1], now)))
  /\ (cli'.pc = "SetLastScan" /\ cli.pc # "SetLastScan") =>
       /\ cli.pc = "MergeDevices"
       /\ call'.err = ""
       /\ devicesFile' = FileOf(DevicesText(cli'.devices))
  /\ (cli'.pc = "MergeDevices" /\ cli.pc # "MergeDevices") => cli.pc = "Scan"
  /\ (cli'.pc = "Scan" /\ cli.pc # "Scan") =>
       /\ cli.pc = "CheckRateLimit"
       /\ CheckRateLimit(scan, GetLastScan(cli.lastScan, RangeOrder[1]), now).allowed

\* C28: the last-scan time of a range is written only by the SetLastScan that
\* the scan handler and the CLI scan loop call after MergeDevices has returned
\* without error, for the range they scanned; they call MergeDevices only
\* after a scan that succeeded, and scan only after the rate-limit check has
\* allowed it.  A refused request, a failed scan and a failed merge end without
\* that call.
C28_SetAfterMerge == [][C28_Step]_vars

\* the handler has scanned a range, merged and saved the devices and has then
\* set the last-scan time of that range
C28_Witness ==
  \E t \in Goroutines :
    /\ th[t].pc = "call"
    /\ th[t].m = "SetLastScan"
    /\ th[t].step = "unlock"
    /\ th[t].status # 500
    /\ GetLastScan(lastScan, th[t].cidr) = th[t].at
    /\ loadState(stateFile) = lastScan
    /\ devices # EmptyMap
    /\ \A k \in RangeKeys \ {th[t].cidr} : k \notin DOMAIN lastScan

\* C29: a record obtained from GetDevices is a snapshot: as long as the caller
\* holds it, its fields are what they were when GetDevices returned, whatever
\* MergeDevices and UpdateDeviceFields calls have come since.
C29_Snapshot ==
  \A k \in DOMAIN heap.held : heap.obj[heap.held[k]] = heap.seen[k]

\* C30: UpdateDeviceFields and DeleteDevice on an address that has no record
\* return a "device not found" error, leave the device map and the scan-state
\* map as they were, and write no file.
C30_NotFound ==
  /\ (call.op = "UpdateDeviceFields" /\ call.args[1] \notin DOMAIN call.devices) =>
       /\ call.err = "device not found"
       /\ devices = call.devices
       /\ lastScan = call.lastScan
       /\ devicesFile = call.devicesFile
       /\ stateFile = call.stateFile
       /\ tempFile = NoFile
  /\ (call.op = "DeleteDevice" /\ call.args \notin DOMAIN call.devices) =>
       /\ call.err = "device not found"
       /\ devices = call.devices
       /\ lastScan = call.lastScan
       /\ devicesFile = call.devicesFile
       /\ stateFile = call.stateFile
       /\ tempFile = NoFile
  /\ (call.op \in {"UpdateDeviceFields", "DeleteDevice"} /\ call.err = "device not found") =>
       (IF call.op = "DeleteDevice" THEN call.args ELSE call.args[1]) \notin DOMAIN call.devices

\* DeleteDevice of an address without record, on a store that has never been
\* saved: no devices file has appeared
C30_Witness ==
  /\ call.op = "DeleteDevice"
  /\ call.err = "device not found"
  /\ call.args \notin DOMAIN devices
  /\ ~devicesFile.exists
  /\ lastScan # EmptyMap

====
